---------------------------- MODULE Spec2Model ----------------------------
(***************************************************************************)
(* Model of the Excel-to-automation-code agent: the schema validator       *)
(* (server/utils/excelValidator.js), the identifier normalizer             *)
(* (server/utils/normalizer.js), the Excel parser and its upload route     *)
(* (server/utils/excelParser.js, server/uploadExcel.js), the conformance   *)
(* post-processing pass of generateCode (server/code-generator.js) and the *)
(* generation route around it (server/generateFromJSON.js).                *)
(*                                                                         *)
(* A JavaScript string is a sequence of one-character strings, so that     *)
(* trim, split, join, includes, replace and the regular expressions of     *)
(* the source are computed character by character.                         *)
(***************************************************************************)
EXTENDS Integers, Sequences, FiniteSets, TLC

----------------------------------------------------------------------------
(* Characters                                                              *)

LowerLetters == <<"a","b","c","d","e","f","g","h","i","j","k","l","m",
                  "n","o","p","q","r","s","t","u","v","w","x","y","z">>

UpperLetters == <<"A","B","C","D","E","F","G","H","I","J","K","L","M",
                  "N","O","P","Q","R","S","T","U","V","W","X","Y","Z">>

Digits == {"0","1","2","3","4","5","6","7","8","9"}

Range(f) == {f[x] : x \in DOMAIN f}

IsLower(c) == c \in Range(LowerLetters)

IsUpper(c) == c \in Range(UpperLetters)

IsLetter(c) == IsLower(c) \/ IsUpper(c)

IsDigit(c) == c \in Digits

\* the grave accent U+0060, which cannot be written inside a string here
Backtick == "U+0060"

\* \s of a JavaScript regular expression and the characters trim() removes
IsWs(c) == c \in {" ", "\t", "\n", "\r"}

LetterIndex(alphabet, c) == CHOOSE n \in DOMAIN alphabet : alphabet[n] = c

ToUpperChar(c) == IF IsLower(c) THEN UpperLetters[LetterIndex(LowerLetters, c)] ELSE c

ToLowerChar(c) == IF IsUpper(c) THEN LowerLetters[LetterIndex(UpperLetters, c)] ELSE c

----------------------------------------------------------------------------
(* String primitives of the JavaScript runtime                             *)

Min(S) == CHOOSE x \in S : \A y \in S : x <= y

Max(S) == CHOOSE x \in S : \A y \in S : x >= y

toLowerCase(s) == [n \in DOMAIN s |-> ToLowerChar(s[n])]

toUpperCase(s) == [n \in DOMAIN s |-> ToUpperChar(s[n])]

\* the first position at or after p that holds no white space (\s* of a regex)
RECURSIVE SkipWs(_, _)
SkipWs(s, p) == IF p > Len(s) \/ ~IsWs(s[p]) THEN p ELSE SkipWs(s, p + 1)

\* the last position at or before p that holds no white space; 0 when none
RECURSIVE SkipWsBack(_, _)
SkipWsBack(s, p) == IF p < 1 \/ ~IsWs(s[p]) THEN p ELSE SkipWsBack(s, p - 1)

\* String.prototype.trim
trim(s) == SubSeq(s, SkipWs(s, 1), SkipWsBack(s, Len(s)))

\* lit occurs in s at the 1-based position p
StartsWithAt(s, p, lit) ==
    /\ p >= 1
    /\ p + Len(lit) - 1 <= Len(s)
    /\ \A n \in 1..Len(lit) : s[p + n - 1] = lit[n]

startsWith(s, lit) == StartsWithAt(s, 1, lit)

endsWith(s, lit) == StartsWithAt(s, Len(s) - Len(lit) + 1, lit)

\* String.prototype.indexOf from the 1-based position p on; 0 when lit does
\* not occur there
IndexFrom(s, lit, p) ==
    LET hits == {q \in p..(Len(s) - Len(lit) + 1) : StartsWithAt(s, q, lit)}
    IN  IF hits = {} THEN 0 ELSE Min(hits)

IndexOf(s, lit) == IndexFrom(s, lit, 1)

includes(s, lit) == IndexOf(s, lit) # 0

\* String.prototype.split on a one-character separator
RECURSIVE SplitFrom(_, _, _)
SplitFrom(s, sep, from) ==
    LET p == IndexFrom(s, << sep >>, from)
    IN  IF p = 0 THEN << SubSeq(s, from, Len(s)) >>
        ELSE << SubSeq(s, from, p - 1) >> \o SplitFrom(s, sep, p + 1)

split(s, sep) == SplitFrom(s, sep, 1)

\* Array.prototype.join on a one-character separator
RECURSIVE join(_, _)
join(parts, sep) ==
    IF parts = << >> THEN << >>
    ELSE IF Len(parts) = 1 THEN parts[1]
    ELSE parts[1] \o << sep >> \o join(Tail(parts), sep)

\* Array.prototype.filter(Boolean) on an array of strings
RECURSIVE filterNonEmpty(_)
filterNonEmpty(parts) ==
    IF parts = << >> THEN << >>
    ELSE IF parts[1] = << >> THEN filterNonEmpty(Tail(parts))
    ELSE << parts[1] >> \o filterNonEmpty(Tail(parts))

\* GetSubstitution of String.prototype.replace with a string pattern: in the
\* replacement "$$" is "$", "$&" the matched text, "$" with a grave accent the
\* text before the match and "$" with an apostrophe the text after it
RECURSIVE GetSubstitution(_, _, _, _)
GetSubstitution(repl, matched, before, after) ==
    IF repl = << >> THEN << >>
    ELSE IF repl[1] = "$" /\ Len(repl) >= 2 /\ repl[2] \in {"$", "&", Backtick, "'"}
         THEN (CASE repl[2] = "$" -> << "$" >>
                 [] repl[2] = "&" -> matched
                 [] repl[2] = Backtick -> before
                 [] repl[2] = "'" -> after)
              \o GetSubstitution(SubSeq(repl, 3, Len(repl)), matched, before, after)
         ELSE << repl[1] >> \o GetSubstitution(Tail(repl), matched, before, after)

\* String.prototype.replace(pattern, replacement) with a string pattern: only
\* the first occurrence of the pattern in s is replaced
replace(s, pattern, replacement) ==
    LET p == IndexOf(s, pattern)
    IN  IF p = 0 THEN s
        ELSE LET before == SubSeq(s, 1, p - 1)
                 after  == SubSeq(s, p + Len(pattern), Len(s))
             IN  before \o GetSubstitution(replacement, pattern, before, after) \o after

----------------------------------------------------------------------------
(* Identifier normalizer (server/utils/normalizer.js)                      *)

\* str.replace(/[^a-zA-Z0-9 ]/g, '')
RECURSIVE stripSpecial(_)
stripSpecial(s) ==
    IF s = << >> THEN << >>
    ELSE IF IsLetter(s[1]) \/ IsDigit(s[1]) \/ s[1] = " "
         THEN << s[1] >> \o stripSpecial(Tail(s))
         ELSE stripSpecial(Tail(s))

\* word.charAt(0).toUpperCase() + word.slice(1)
capitalize(word) ==
    IF word = << >> THEN << >> ELSE << ToUpperChar(word[1]) >> \o Tail(word)

RECURSIVE concatAll(_)
concatAll(parts) ==
    IF parts = << >> THEN << >> ELSE parts[1] \o concatAll(Tail(parts))

toPascalCase(str) ==
    LET words == filterNonEmpty(split(stripSpecial(str), " "))
    IN  concatAll([n \in DOMAIN words |-> capitalize(words[n])])

toCamelCase(str) ==
    LET pascal == toPascalCase(str)
    IN  IF pascal = << >> THEN << >> ELSE << ToLowerChar(pascal[1]) >> \o Tail(pascal)


\* the Set commonWords of toShortFeatureName: stop words and testing words
commonWords ==
    { <<"a">>, <<"a", "n">>, <<"t", "h", "e">>, <<"o", "f">>, <<"i", "n">>, <<"o", "n">>, <<"a", "t">>, <<"f", "o", "r">>, <<"w", "i", "t", "h">>,
      <<"a", "n", "d">>, <<"o", "r">>, <<"b", "u", "t">>, <<"i", "s">>, <<"a", "r", "e">>, <<"w", "a", "s">>, <<"w", "e", "r", "e">>, <<"b", "e">>,
      <<"b", "e", "e", "n">>, <<"b", "e", "i", "n", "g">>, <<"h", "a", "v", "e">>, <<"h", "a", "s">>, <<"h", "a", "d">>, <<"d", "o">>, <<"d", "o", "e", "s">>, <<"d", "i", "d">>,
      <<"n", "o", "t">>, <<"n", "o">>, <<"t", "h", "i", "s">>, <<"t", "h", "a", "t">>, <<"t", "h", "e", "s", "e">>, <<"t", "h", "o", "s", "e">>, <<"f", "r", "o", "m">>, <<"t", "o">>,
      <<"b", "y">>, <<"a", "s">>, <<"i", "t">>, <<"i", "t", "s">>, <<"i", "n", "t", "o">>, <<"t", "h", "r", "o", "u", "g", "h">>, <<"d", "u", "r", "i", "n", "g">>,
      <<"b", "e", "f", "o", "r", "e">>, <<"a", "f", "t", "e", "r">>, <<"a", "b", "o", "v", "e">>, <<"b", "e", "l", "o", "w">>, <<"u", "p">>, <<"d", "o", "w", "n">>, <<"o", "u", "t">>,
      <<"o", "f", "f">>, <<"o", "v", "e", "r">>, <<"u", "n", "d", "e", "r">>, <<"a", "g", "a", "i", "n">>, <<"f", "u", "r", "t", "h", "e", "r">>, <<"t", "h", "e", "n">>, <<"o", "n", "c", "e">>,
      <<"h", "e", "r", "e">>, <<"t", "h", "e", "r", "e">>, <<"w", "h", "e", "n">>, <<"w", "h", "e", "r", "e">>, <<"w", "h", "y">>, <<"h", "o", "w">>, <<"a", "l", "l">>, <<"a", "n", "y">>,
      <<"b", "o", "t", "h">>, <<"e", "a", "c", "h">>, <<"f", "e", "w">>, <<"m", "o", "r", "e">>, <<"m", "o", "s", "t">>, <<"o", "t", "h", "e", "r">>, <<"s", "o", "m", "e">>,
      <<"s", "u", "c", "h">>, <<"n", "o", "r">>, <<"o", "n", "l", "y">>, <<"o", "w", "n">>, <<"s", "a", "m", "e">>, <<"s", "o">>, <<"t", "h", "a", "n">>, <<"t", "o", "o">>,
      <<"v", "e", "r", "y">>, <<"s">>, <<"t">>, <<"c", "a", "n">>, <<"w", "i", "l", "l">>, <<"j", "u", "s", "t">>, <<"d", "o", "n">>, <<"s", "h", "o", "u", "l", "d">>,
      <<"n", "o", "w">>, <<"v", "e", "r", "i", "f", "y">>, <<"c", "h", "e", "c", "k">>, <<"e", "n", "s", "u", "r", "e">>, <<"m", "a", "n", "a", "g", "e">>, <<"t", "e", "s", "t">>,
      <<"s", "c", "e", "n", "a", "r", "i", "o">>, <<"f", "l", "o", "w">>, <<"f", "u", "n", "c", "t", "i", "o", "n", "a", "l", "i", "t", "y">>, <<"p", "a", "g", "e">>, <<"m", "o", "d", "u", "l", "e">>, <<"s", "y", "s", "t", "e", "m">> }

\* str.replace(/[^a-z0-9\s]/g, '')
RECURSIVE stripNonWord(_)
stripNonWord(s) ==
    IF s = << >> THEN << >>
    ELSE IF IsLower(s[1]) \/ IsDigit(s[1]) \/ IsWs(s[1])
         THEN << s[1] >> \o stripNonWord(Tail(s))
         ELSE stripNonWord(Tail(s))

\* String.prototype.substring(0, n)
substring0(s, n) == SubSeq(s, 1, Min({Len(s), n}))

\* the significant words of a title: longer than two characters, not common
significantWords(scenarioTitle) ==
    SelectSeq(split(stripNonWord(toLowerCase(scenarioTitle)), " "),
              LAMBDA word : Len(word) > 2 /\ word \notin commonWords)

\* a deviating loop: a first word that is too long is taken whole
RECURSIVE combineWords_Untruncated(_, _, _)
combineWords_Untruncated(words, n, shortName) ==
    IF n > Len(words) THEN shortName
    ELSE IF Len(shortName) + Len(toPascalCase(words[n])) < 25
         THEN combineWords_Untruncated(words, n + 1, shortName \o toPascalCase(words[n]))
         ELSE IF shortName = << >> THEN words[n] ELSE shortName

\* the loop of toShortFeatureName from its iteration n on (1-based), with
\* the shortName built so far
RECURSIVE combineWords(_, _, _)
combineWords(words, n, shortName) ==
    IF n > Len(words) THEN shortName
    ELSE IF Len(shortName) + Len(toPascalCase(words[n])) < 25
         THEN combineWords(words, n + 1, shortName \o toPascalCase(words[n]))
         ELSE IF shortName = << >> THEN substring0(words[n], 25) ELSE shortName

\* a || b on strings
orElse(a, b) == IF a # << >> THEN a ELSE b

toShortFeatureName(scenarioTitle) ==
    LET words == significantWords(scenarioTitle)
    IN  IF words = << >>
        THEN orElse(toCamelCase(substring0(scenarioTitle, 15)), <<"g", "e", "n", "e", "r", "i", "c", "F", "e", "a", "t", "u", "r", "e">>)
        ELSE orElse(toCamelCase(combineWords(words, 1, << >>)),
                    orElse(toCamelCase(words[1]), <<"g", "e", "n", "e", "r", "i", "c", "F", "e", "a", "t", "u", "r", "e">>))
----------------------------------------------------------------------------
(* Schema validator (server/utils/excelValidator.js)                       *)

\* A cell of the sheet: a string, or no value at all (an empty or missing cell)
Str(s) == [t |-> "string", v |-> s]

Undefined == [t |-> "undefined", v |-> << >>]

\* typeof h === 'string' ? h.trim() : ''
trimCell(c) == IF c.t = "string" THEN trim(c.v) ELSE << >>

\* row[index] for a 0-based index; undefined outside the row (and for -1)
cellAt(row, index) == IF index + 1 \in DOMAIN row THEN row[index + 1] ELSE Undefined

\* Array.prototype.indexOf on an array of strings, 0-based; -1 when absent
indexOf(arr, item) ==
    LET hits == {n \in DOMAIN arr : arr[n] = item}
    IN  IF hits = {} THEN -1 ELSE Min(hits) - 1

H_TestScenario == <<"T", "e", "s", "t", " ", "S", "c", "e", "n", "a", "r", "i", "o">>

H_TestCaseID == <<"T", "e", "s", "t", " ", "C", "a", "s", "e", " ", "I", "D">>

H_TestCaseDescription == <<"T", "e", "s", "t", " ", "C", "a", "s", "e", " ", "D", "e", "s", "c", "r", "i", "p", "t", "i", "o", "n">>

H_DetailSteps == <<"D", "e", "t", "a", "i", "l", " ", "S", "t", "e", "p", "s">>

H_TestData == <<"T", "e", "s", "t", " ", "D", "a", "t", "a">>

H_ExpectedResult == <<"E", "x", "p", "e", "c", "t", "e", "d", " ", "R", "e", "s", "u", "l", "t">>

H_TestcasePriority == <<"T", "e", "s", "t", "c", "a", "s", "e", " ", "P", "r", "i", "o", "r", "i", "t", "y">>

\* a deviating header list: the priority column is not required
MANDATORY_HEADERS_NoPriority ==
    << H_TestScenario, H_TestCaseDescription, H_DetailSteps, H_TestData,
       H_ExpectedResult >>

MANDATORY_HEADERS ==
    << H_TestScenario, H_TestCaseDescription, H_DetailSteps, H_TestData,
       H_ExpectedResult, H_TestcasePriority >>

trimmedHeadersOf(hs) == [n \in DOMAIN hs |-> trimCell(hs[n])]

\* the mandatory headers that the header row lacks, in the order of the list
missingHeaders(hs) ==
    SelectSeq(MANDATORY_HEADERS, LAMBDA h : indexOf(trimmedHeadersOf(hs), h) = -1)

PRIORITIES == { <<"P", "1">>, <<"P", "2">>, <<"P", "3">> }

\* a deviating reading of the cell: compared as written, without toUpperCase
rowPriority_CaseSensitive(hs, row) ==
    trimCell(cellAt(row, indexOf(trimmedHeadersOf(hs), H_TestcasePriority)))

\* row[testcasePriorityColIndex], trimmed and upper-cased when it is a string
rowPriority(hs, row) ==
    toUpperCase(trimCell(cellAt(row, indexOf(trimmedHeadersOf(hs), H_TestcasePriority))))

\* a deviating reading of the scenario cell: taken as written, untrimmed
rowScenario_Untrimmed(hs, row) ==
    LET c == cellAt(row, indexOf(trimmedHeadersOf(hs), H_TestScenario))
    IN  IF c.t = "string" THEN c.v ELSE << >>

rowScenario(hs, row) ==
    trimCell(cellAt(row, indexOf(trimmedHeadersOf(hs), H_TestScenario)))

rowCoreEmpty(hs, row) ==
    /\ trimCell(cellAt(row, indexOf(trimmedHeadersOf(hs), H_TestCaseDescription))) = << >>
    /\ trimCell(cellAt(row, indexOf(trimmedHeadersOf(hs), H_DetailSteps))) = << >>
    /\ trimCell(cellAt(row, indexOf(trimmedHeadersOf(hs), H_ExpectedResult))) = << >>

Null == [t |-> "null", v |-> << >>]

NoError == [kind |-> "none", row |-> 0, text |-> << >>]

----------------------------------------------------------------------------
(* The regular expressions of the post-processing pass                     *)
(*                                                                         *)
(* A matcher takes a 1-based position and gives the position after what it *)
(* matched, or 0 when it does not match there (0 is passed along).         *)

\* the literal lit at p
Lit(s, p, lit) == IF p # 0 /\ StartsWithAt(s, p, lit) THEN p + Len(lit) ELSE 0

\* \s*
Ws0(s, p) == IF p = 0 THEN 0 ELSE SkipWs(s, p)

\* \s+
Ws1(s, p) == IF p # 0 /\ p <= Len(s) /\ IsWs(s[p]) THEN SkipWs(s, p) ELSE 0

\* one character out of a set
OneOf(s, p, chars) == IF p # 0 /\ p <= Len(s) /\ s[p] \in chars THEN p + 1 ELSE 0

\* an optional literal, taken when it is there
Opt(s, p, lit) == IF p # 0 /\ StartsWithAt(s, p, lit) THEN p + Len(lit) ELSE p

Quotes == {"'", "\"", Backtick}

\* what . matches: any character but a line terminator
IsDot(c) == c \notin {"\n", "\r"}

\* /import\s+\{\s*test\s*\}\s+from\s+['\x22]\.\.\/testFixtures\/baseFixture\.js['\x22];?/
\* at p: the position after the match, or 0
importBaseFixtureAt(s, p) ==
    LET p1 == Ws1(s, Lit(s, p, <<"i", "m", "p", "o", "r", "t">>))
        p2 == Ws0(s, Lit(s, p1, <<"{">>))
        p3 == Ws0(s, Lit(s, p2, <<"t", "e", "s", "t">>))
        p4 == Ws1(s, Lit(s, p3, <<"}">>))
        p5 == Ws1(s, Lit(s, p4, <<"f", "r", "o", "m">>))
        p6 == OneOf(s, p5, {"'", "\""})
        p7 == Lit(s, p6, <<".", ".", "/", "t", "e", "s", "t", "F", "i", "x", "t", "u", "r", "e", "s", "/", "b", "a", "s", "e", "F", "i", "x", "t", "u", "r", "e", ".", "j", "s">>)
        p8 == OneOf(s, p7, {"'", "\""})
    IN  Opt(s, p8, <<";">>)

\* the leftmost position from p on where matcher At(s, _) matches; 0 when none
Leftmost(At(_, _), s, p) ==
    LET hits == {q \in p..(Len(s) + 1) : At(s, q) # 0}
    IN  IF hits = {} THEN 0 ELSE Min(hits)

DefaultImportLine == <<"i", "m", "p", "o", "r", "t", " ", "t", "e", "s", "t", " ", "f", "r", "o", "m", " ", "'", ".", ".", "/", "t", "e", "s", "t", "F", "i", "x", "t", "u", "r", "e", "s", "/", "b", "a", "s", "e", "F", "i", "x", "t", "u", "r", "e", ".", "j", "s", "'", ";">>

\* lines[0].replace(importBaseFixtureRegex, ...) when the regex matches
fixImportLine(line) ==
    LET p == Leftmost(importBaseFixtureAt, line, 1)
    IN  IF p = 0 THEN line
        ELSE SubSeq(line, 1, p - 1) \o DefaultImportLine
             \o SubSeq(line, importBaseFixtureAt(line, p), Len(line))

\* (\s*,\s*?\(\s*?\)\s*?=>\s*?\{) at p
describeTailAt(s, p) ==
    LET p1 == Ws0(s, Lit(s, Ws0(s, p), <<",">>))
        p2 == Ws0(s, Lit(s, p1, <<"(">>))
        p3 == Ws0(s, Lit(s, p2, <<")">>))
        p4 == Ws0(s, Lit(s, p3, <<"=", ">">>))
    IN  Lit(s, p4, <<"{">>)

\* (.*?) followed by the closing quote q and the tail: the least title end
\* from e on (the title is s[from..e-1]); 0 when there is none
RECURSIVE describeTitleEnd(_, _, _)
describeTitleEnd(s, q, e) ==
    IF e > Len(s) THEN 0
    ELSE IF s[e] = q /\ describeTailAt(s, e + 1) # 0 THEN e
    ELSE IF IsDot(s[e]) THEN describeTitleEnd(s, q, e + 1)
    ELSE 0

\* /(test\.describe\()(['\x22\x60])(.*?)\2(\s*,\s*?\(\s*?\)\s*?=>\s*?\{)/ at p:
\* the position of the closing quote, or 0
describeAt(s, p) ==
    LET p1 == Lit(s, p, <<"t", "e", "s", "t", ".", "d", "e", "s", "c", "r", "i", "b", "e", "(">>)
        p2 == OneOf(s, p1, Quotes)
    IN  IF p2 = 0 THEN 0 ELSE describeTitleEnd(s, s[p1], p2)

NoMatch == [found |-> FALSE, title |-> << >>]

\* line.match(describe regex): whether it matches and its group 3
describeMatch(line) ==
    LET p == Leftmost(describeAt, line, 1)
    IN  IF p = 0 THEN NoMatch
        ELSE [found |-> TRUE,
              title |-> SubSeq(line, p + Len(<<"t", "e", "s", "t", ".", "d", "e", "s", "c", "r", "i", "b", "e", "(">>) + 1, describeAt(line, p) - 1)]

\* \}\s*\)\s*=>\s*\{ at p
testCloseAt(s, p) ==
    LET p1 == Ws0(s, Lit(s, p, <<"}">>))
        p2 == Ws0(s, Lit(s, p1, <<")">>))
        p3 == Ws0(s, Lit(s, p2, <<"=", ">">>))
    IN  Lit(s, p3, <<"{">>)

\* .*?\}\s*\)\s*=>\s*\{ from p on
RECURSIVE testParamsAt(_, _)
testParamsAt(s, p) ==
    IF p = 0 \/ p > Len(s) THEN 0
    ELSE IF testCloseAt(s, p) # 0 THEN testCloseAt(s, p)
    ELSE IF IsDot(s[p]) THEN testParamsAt(s, p + 1)
    ELSE 0

\* (['\x22\x60]\s*,\s*async\s*\(\s*{.*?}\s*\)\s*=>\s*\{) at p
testTailAt(s, p) ==
    LET p1 == Ws0(s, OneOf(s, p, Quotes))
        p2 == Ws0(s, Lit(s, p1, <<",">>))
        p3 == Ws0(s, Lit(s, p2, <<"a", "s", "y", "n", "c">>))
        p4 == Ws0(s, Lit(s, p3, <<"(">>))
        p5 == Lit(s, p4, <<"{">>)
    IN  testParamsAt(s, p5)

RECURSIVE testTitleEnd(_, _)
testTitleEnd(s, e) ==
    IF e > Len(s) THEN 0
    ELSE IF testTailAt(s, e) # 0 THEN e
    ELSE IF IsDot(s[e]) THEN testTitleEnd(s, e + 1)
    ELSE 0

\* /(test\(['\x22\x60])(.*?)(['\x22\x60]\s*,\s*async\s*\(\s*{.*?}\s*\)\s*=>\s*\{)/ at p:
\* the position after the title, or 0
testAt(s, p) ==
    LET p1 == OneOf(s, Lit(s, p, <<"t", "e", "s", "t", "(">>), Quotes)
    IN  IF p1 = 0 THEN 0 ELSE testTitleEnd(s, p1)

\* line.match(test regex): whether it matches and its group 2
testMatch(line) ==
    LET p == Leftmost(testAt, line, 1)
    IN  IF p = 0 THEN NoMatch
        ELSE [found |-> TRUE,
              title |-> SubSeq(line, p + Len(<<"t", "e", "s", "t", "(">>) + 1, testAt(line, p) - 1)]

\* await\s+(?:page|browser)\.(?:toBe|toHave|isVisible|title)\( at p
awaitCallAt(s, p) ==
    LET p1 == Ws1(s, Lit(s, p, <<"a", "w", "a", "i", "t">>))
        p2 == IF Lit(s, p1, <<"p", "a", "g", "e">>) # 0 THEN Lit(s, p1, <<"p", "a", "g", "e">>)
              ELSE Lit(s, p1, <<"b", "r", "o", "w", "s", "e", "r">>)
        p3 == Lit(s, p2, <<".">>)
        p4 == CASE Lit(s, p3, <<"t", "o", "B", "e">>) # 0 -> Lit(s, p3, <<"t", "o", "B", "e">>)
                [] Lit(s, p3, <<"t", "o", "H", "a", "v", "e">>) # 0 -> Lit(s, p3, <<"t", "o", "H", "a", "v", "e">>)
                [] Lit(s, p3, <<"i", "s", "V", "i", "s", "i", "b", "l", "e">>) # 0 -> Lit(s, p3, <<"i", "s", "V", "i", "s", "i", "b", "l", "e">>)
                [] OTHER -> Lit(s, p3, <<"t", "i", "t", "l", "e">>)
    IN  Lit(s, p4, <<"(">>)

\* /(?:expect\(|page\.waitForURL\(|await\s+(?:page|browser)\.(...)\()/.test(text)
existingAssertionAt(s, p) ==
    IF Lit(s, p, <<"e", "x", "p", "e", "c", "t", "(">>) # 0 THEN Lit(s, p, <<"e", "x", "p", "e", "c", "t", "(">>)
    ELSE IF Lit(s, p, <<"p", "a", "g", "e", ".", "w", "a", "i", "t", "F", "o", "r", "U", "R", "L", "(">>) # 0 THEN Lit(s, p, <<"p", "a", "g", "e", ".", "w", "a", "i", "t", "F", "o", "r", "U", "R", "L", "(">>)
    ELSE awaitCallAt(s, p)

hasExistingAssertionIn(text) == Leftmost(existingAssertionAt, text, 1) # 0

\* the length of the run of characters satisfying Is(_) from p on
RECURSIVE RunLen(_, _, _)
RunLen(Is(_), s, p) ==
    IF p > Len(s) \/ ~Is(s[p]) THEN 0 ELSE 1 + RunLen(Is, s, p + 1)

IsHostChar(c) == IsLetter(c) \/ IsDigit(c) \/ c \in {".", "-"}

IsPathChar(c) == ~IsWs(c) /\ c \notin {",", "\"", "'"}

\* the one element of a set of one element
The(S) == CHOOSE x \in S : TRUE

\* (?::\d+)?(?:\/[^\s,\x22']*)? at p (both greedy): the position after it
urlPortPathAt(s, p) ==
    The({ The({ IF Lit(s, p3, <<"/">>) = 0 THEN p3
                ELSE p3 + 1 + RunLen(IsPathChar, s, p3 + 1)
                : p3 \in {IF digits = 0 THEN p ELSE p + 1 + digits} })
          : digits \in {IF Lit(s, p, <<":">>) = 0 THEN 0 ELSE RunLen(IsDigit, s, p + 1)} })

\* \.[a-zA-Z]{2,6}(?::\d+)?(?:\/[^\s,\x22']*)? at p (all greedy)
urlTldAt(s, p) ==
    IF Lit(s, p, <<".">>) = 0 THEN 0
    ELSE The({ IF letters < 2 THEN 0
               ELSE urlPortPathAt(s, p + 1 + (IF letters > 6 THEN 6 ELSE letters))
               : letters \in {RunLen(IsLetter, s, p + 1)} })

\* [a-zA-Z0-9.-]+ from h followed by the rest of the url regex: the longest
\* run of at most n host characters after which the rest matches
urlHostAt(s, h, n) ==
    The({ IF lengths = {} THEN 0 ELSE urlTldAt(s, h + Max(lengths))
          : lengths \in {{ k \in 1..n : urlTldAt(s, h + k) # 0 }} })

\* /(https?:\/\/(?:www\.)?[a-zA-Z0-9.-]+\.[a-zA-Z]{2,6}(?::\d+)?(?:\/[^\s,\x22']*)?)/
\* at p: the position after the match, or 0
urlAt(s, p) ==
    The({ IF p1 = 0 THEN 0
          ELSE The({ IF withWww # 0 THEN withWww
                     ELSE urlHostAt(s, p1, RunLen(IsHostChar, s, p1))
                     : withWww \in {IF Lit(s, p1, <<"w", "w", "w", ".">>) = 0 THEN 0
                                    ELSE urlHostAt(s, p1 + 4,
                                                   RunLen(IsHostChar, s, p1 + 4))} })
          : p1 \in {Lit(s, Opt(s, Lit(s, p, <<"h", "t", "t", "p">>), <<"s">>), <<":", "/", "/">>)} })

\* text.match(url regex): whether it matches and the matched text
urlMatch(text) ==
    The({ IF p = 0 THEN NoMatch
          ELSE [found |-> TRUE, title |-> SubSeq(text, p, urlAt(text, p) - 1)]
          : p \in {Leftmost(urlAt, text, 1)} })

----------------------------------------------------------------------------
(* The post-processing pass of generateCode (server/code-generator.js)     *)

FixturePath == <<"t", "e", "s", "t", "F", "i", "x", "t", "u", "r", "e", "s", "/", "b", "a", "s", "e", "F", "i", "x", "t", "u", "r", "e", ".", "j", "s">>

\* a deviating condition: every file whose name ends like a spec file
isTestSpecPath_AnyFolder(filePath) ==
    \/ endsWith(filePath, <<".", "s", "p", "e", "c", ".", "j", "s">>)
    \/ endsWith(filePath, <<".", "t", "e", "s", "t", ".", "j", "s">>)
    \/ endsWith(filePath, <<".", "c", "y", ".", "j", "s">>)

\* filePath.startsWith('tests/') && (filePath.endsWith('.spec.js') || ...)
isTestSpecPath(filePath) ==
    /\ startsWith(filePath, <<"t", "e", "s", "t", "s", "/">>)
    /\ \/ endsWith(filePath, <<".", "s", "p", "e", "c", ".", "j", "s">>)
       \/ endsWith(filePath, <<".", "t", "e", "s", "t", ".", "j", "s">>)
       \/ endsWith(filePath, <<".", "c", "y", ".", "j", "s">>)

\* s.replace(/suffix$/, '')
dropSuffix(s, suffix) ==
    IF endsWith(s, suffix) THEN SubSeq(s, 1, Len(s) - Len(suffix)) ELSE s

\* filePath.split('/').pop().replace(/\.spec\.js$/, '').replace(/\.test\.js$/, '')
\*     .replace(/\.cy\.js$/, '')
generatedFileNameWithoutExt(filePath) ==
    LET parts == split(filePath, "/")
    IN  dropSuffix(dropSuffix(dropSuffix(parts[Len(parts)], <<".", "s", "p", "e", "c", ".", "j", "s">>), <<".", "t", "e", "s", "t", ".", "j", "s">>),
                   <<".", "c", "y", ".", "j", "s">>)

\* testDataArray.find(s => s.shortFeatureName === name): the 1-based index of
\* the first such group, 0 when there is none
RECURSIVE findScenario(_, _, _)
findScenario(groups, name, n) ==
    IF n > Len(groups) THEN 0
    ELSE IF groups[n].shortFeatureName = name THEN n
    ELSE findScenario(groups, name, n + 1)

\* the switch on currentTestCase.priority
priorityTags(priority) ==
    CASE priority = <<"P", "1">> -> <<"@", "s", "m", "o", "k", "e", " ", "@", "r", "e", "g", " ">>
      [] priority = <<"P", "2">> -> <<"@", "s", "a", "n", "i", "t", "y", " ", "@", "r", "e", "g", " ">>
      [] priority = <<"P", "3">> -> <<"@", "r", "e", "g", " ">>
      [] OTHER -> << >>

\* exactTestTitle: the title of the test case behind its priority tags
exactTestTitleOf(tc) ==
    IF tc.priority # << >> THEN priorityTags(tc.priority) \o tc.title ELSE tc.title

\* the describe title correction of one line
correctDescribeTitle(line, scenario) ==
    LET m == describeMatch(line)
    IN  IF m.found /\ trim(m.title) # trim(scenario)
        THEN replace(line, m.title, scenario)
        ELSE line

\* the test title correction of one line that matched the test regex
correctTestTitle(line, generatedTitle, exactTestTitle) ==
    IF \/ trim(generatedTitle) # trim(exactTestTitle)
       \/ includes(generatedTitle, <<"T", "e", "s", "t", " ", "f", "o", "r">>)
       \/ includes(generatedTitle, <<"C", "a", "s", "e">>)
       \/ includes(generatedTitle, <<"F", "u", "n", "c", "i", "t", "o", "n", "a", "l", "i", "t", "y">>)
       \/ includes(generatedTitle, <<"S", "c", "e", "n", "a", "r", "i", "o">>)
    THEN replace(line, generatedTitle, exactTestTitle)
    ELSE line

\* the first line index after the lookahead window: lines.slice(i + 1, i + 10)
LookaheadEnd == 10

\* lines.slice(from, to) for 0-based from and to
slice(arr, from, to) ==
    SubSeq(arr, from + 1, IF to > Len(arr) THEN Len(arr) ELSE to)

\* hasExistingAssertion for the case declared at the 0-based line i
hasExistingAssertion(lines, i) ==
    \E codeBlockAfterTest \in {join(slice(lines, i + 1, i + LookaheadEnd), "\n")} :
        hasExistingAssertionIn(codeBlockAfterTest)

NoAnalysis ==
    [present |-> FALSE, action |-> "", validationType |-> "", url |-> << >>,
     expectedValue |-> << >>, target |-> << >>]

RefineLocatorComment == <<"\n", " ", " ", " ", " ", " ", " ", " ", " ", "/", "/", " ", "Y", "o", "u", " ", "m", "a", "y", " ", "n", "e", "e", "d", " ", "t", "o", " ", "r", "e", "f", "i", "n", "e", " ", "t", "h", "e", " ", "l", "o", "c", "a", "t", "o", "r", " ", "b", "a", "s", "e", "d", " ", "o", "n", " ", "c", "o", "n", "t", "e", "x", "t", ".", "\n", " ", " ", " ", " ", " ", " ", " ", " ">>

\* assertionCode from nlpAnalysis.expectedResult.analysis
nlpAssertionCode(a, expectedResult) ==
    IF a.action = "navigate" /\ a.url # << >>
    THEN <<"a", "w", "a", "i", "t", " ", "p", "a", "g", "e", ".", "w", "a", "i", "t", "F", "o", "r", "U", "R", "L", "(", "'">> \o a.url
         \o <<"'", ")", ";", " ", "/", "/", " ", "N", "L", "P", "-", "i", "n", "f", "e", "r", "r", "e", "d", ":", " ", "P", "a", "g", "e", " ", "U", "R", "L", " ", "v", "e", "r", "i", "f", "i", "c", "a", "t", "i", "o", "n">>
    ELSE IF a.action = "verify" /\ a.validationType = "text" /\ a.expectedValue # << >>
    THEN <<"/", "/", " ", "A", "s", "s", "e", "r", "t", "i", "o", "n", ":", " ", "V", "e", "r", "i", "f", "y", " ", "t", "e", "x", "t", " ", "c", "o", "n", "t", "e", "n", "t", " ", "'">> \o a.expectedValue \o <<"'">>
         \o RefineLocatorComment
         \o <<"a", "w", "a", "i", "t", " ", "e", "x", "p", "e", "c", "t", "(", "p", "a", "g", "e", ".", "l", "o", "c", "a", "t", "o", "r", "(", "'", "t", "e", "x", "t", "=">> \o a.expectedValue
         \o <<"'", ")", ")", ".", "t", "o", "C", "o", "n", "t", "a", "i", "n", "T", "e", "x", "t", "(", "'">> \o a.expectedValue \o <<"'", ")", ";">>
    ELSE IF a.action = "verify" /\ a.validationType = "visibility" /\ a.target # << >>
    THEN <<"/", "/", " ", "A", "s", "s", "e", "r", "t", "i", "o", "n", ":", " ", "V", "e", "r", "i", "f", "y", " ", "e", "l", "e", "m", "e", "n", "t", " ", "v", "i", "s", "i", "b", "i", "l", "i", "t", "y", " ", "f", "o", "r", " ", "'">> \o a.target \o <<"'">>
         \o RefineLocatorComment
         \o <<"a", "w", "a", "i", "t", " ", "e", "x", "p", "e", "c", "t", "(", "p", "a", "g", "e", ".", "l", "o", "c", "a", "t", "o", "r", "(", "'", "t", "e", "x", "t", "=">> \o a.target \o <<"'", ")", ")", ".", "t", "o", "B", "e", "V", "i", "s", "i", "b", "l", "e", "(", ")", ";">>
    ELSE IF a.action = "verify" /\ a.target # << >> /\ a.expectedValue # << >>
    THEN <<"/", "/", " ", "A", "s", "s", "e", "r", "t", "i", "o", "n", ":", " ", "V", "e", "r", "i", "f", "y", " ", "$", "{", "n", "l", "p", "A", "n", "a", "l", "y", "s", "i", "s", ".", "t", "a", "r", "g", "e", "t", "}", " ", "i", "s", " ", "$", "{", "n", "l", "p", "A", "n", "a", "l", "y", "s", "i", "s", ".", "e", "x", "p", "e", "c", "t", "e", "d", "V", "a", "l", "u", "e", "}", ".", " ", "P", "l", "e", "a", "s", "e", " ", "a", "d", "d", " ", "s", "p", "e", "c", "i", "f", "i", "c", " ", "a", "s", "s", "e", "r", "t", "i", "o", "n", ".">>
    ELSE <<"/", "/", " ", "V", "e", "r", "i", "f", "y", ":", " ">> \o expectedResult

\* assertionCode from the keywords of the expected result, lowerExpected
\* being expectedResult.toLowerCase()
keywordAssertionCode(expectedResult, lowerExpected) ==
    IF includes(lowerExpected, <<"u", "r", "l">>)
    THEN IF urlMatch(lowerExpected).found
         THEN <<"a", "w", "a", "i", "t", " ", "p", "a", "g", "e", ".", "w", "a", "i", "t", "F", "o", "r", "U", "R", "L", "(", "'">> \o urlMatch(lowerExpected).title
              \o <<"'", ")", ";", " ", "/", "/", " ", "K", "e", "y", "w", "o", "r", "d", " ", "i", "n", "f", "e", "r", "r", "e", "d", ":", " ", "U", "R", "L", " ", "v", "e", "r", "i", "f", "i", "c", "a", "t", "i", "o", "n">>
         ELSE << >>
    ELSE IF includes(lowerExpected, <<"v", "i", "s", "i", "b", "l", "e">>) \/ includes(lowerExpected, <<"d", "i", "s", "p", "l", "a", "y", "e", "d">>)
    THEN <<"/", "/", " ", "V", "e", "r", "i", "f", "y", " ", "e", "l", "e", "m", "e", "n", "t", " ", "i", "s", " ", "v", "i", "s", "i", "b", "l", "e", ":", " ">> \o expectedResult
    ELSE IF \/ includes(lowerExpected, <<"t", "e", "x", "t">>)
            \/ includes(lowerExpected, <<"m", "e", "s", "s", "a", "g", "e">>)
            \/ includes(lowerExpected, <<"v", "a", "l", "u", "e">>)
    THEN <<"/", "/", " ", "V", "e", "r", "i", "f", "y", " ", "t", "e", "x", "t", " ", "c", "o", "n", "t", "e", "n", "t", ":", " ">> \o expectedResult
    ELSE <<"/", "/", " ", "V", "e", "r", "i", "f", "y", ":", " ">> \o expectedResult

\* assertionCode for a test case whose expected result is not blank
assertionCodeFor(tc, lowerExpected, existing) ==
    IF existing THEN << >>
    ELSE IF tc.analysis.present THEN nlpAssertionCode(tc.analysis, tc.expected)
    ELSE keywordAssertionCode(tc.expected, lowerExpected)

\* the brace scan from line j on with braceCount open: whether the closing
\* brace was found, and j after the loop
RECURSIVE braceScan(_, _, _)
braceScan(lines, j, braceCount) ==
    IF j >= Len(lines) THEN [found |-> FALSE, j |-> j]
    ELSE LET currentLine == lines[j + 1]
             opened == IF includes(currentLine, <<"{">>) THEN braceCount + 1 ELSE braceCount
             closed == IF includes(currentLine, <<"}">>) THEN opened - 1 ELSE opened
         IN  IF closed = 0 THEN [found |-> TRUE, j |-> j + 1]
             ELSE braceScan(lines, j + 1, closed)

\* lines.splice(at, 0, item) for a 0-based index
spliceIn(arr, at, item) ==
    SubSeq(arr, 1, at) \o << item >> \o SubSeq(arr, at + 1, Len(arr))

\* a deviating collection: a name that comes again is listed again
RECURSIVE pageObjectNamesOf_NoDedupe(_)
pageObjectNamesOf_NoDedupe(groups) ==
    IF groups = << >> THEN << >>
    ELSE LET name == toPascalCase(groups[Len(groups)].scenario)
             before == pageObjectNamesOf_NoDedupe(SubSeq(groups, 1, Len(groups) - 1))
         IN  IF name = << >> THEN before ELSE Append(before, name)

\* Array.from(uniquePageObjectInfo.keys()): a Map keeps a key where it was
\* first set
RECURSIVE pageObjectNamesOf(_)
pageObjectNamesOf(groups) ==
    IF groups = << >> THEN << >>
    ELSE LET name == toPascalCase(groups[Len(groups)].scenario)
             before == pageObjectNamesOf(SubSeq(groups, 1, Len(groups) - 1))
         IN  IF name = << >> \/ name \in Range(before) THEN before
             ELSE Append(before, name)

importStatementOf(name) ==
    <<"i", "m", "p", "o", "r", "t", " ", "{", " ">> \o name \o <<"P", "a", "g", "e", " ", "}", " ", "f", "r", "o", "m", " ", "'", ".", ".", "/", "p", "a", "g", "e", "s", "/">> \o name \o <<"P", "a", "g", "e", ".", "j", "s", "'", ";">>

fixtureDefinitionOf(name) ==
    <<" ", " ", " ", " ">> \o toCamelCase(name) \o <<"P", "a", "g", "e", ":", " ", "a", "s", "y", "n", "c", " ", "(", "{", " ", "p", "a", "g", "e", " ", "}", ",", " ", "u", "s", "e", ")", " ", "=", ">", " ", "{", " ", "a", "w", "a", "i", "t", " ", "u", "s", "e", "(", "n", "e", "w", " ">>
    \o name \o <<"P", "a", "g", "e", "(", "p", "a", "g", "e", ")", ")", ";", " ", "}", ",">>

MinimalFixture ==
    <<"i", "m", "p", "o", "r", "t", " ", "{", " ", "t", "e", "s", "t", " ", "a", "s", " ", "b", "a", "s", "e", "T", "e", "s", "t", " ", "}", " ", "f", "r", "o", "m", " ", "'", "@", "p", "l", "a", "y", "w", "r", "i", "g", "h", "t", "/", "t", "e", "s", "t", "'", ";", "\n", "\n", "c", "o", "n", "s", "t", " ", "t", "e", "s", "t", " ", "=", " ", "b", "a", "s", "e", "T", "e", "s", "t", ".", "e", "x", "t", "e", "n", "d", "(", "{", "}", ")", ";", "\n", "\n", "e", "x", "p", "o", "r", "t", " ", "d", "e", "f", "a", "u", "l", "t", " ", "t", "e", "s", "t", ";", "\n">>

\* finalContent of testFixtures/baseFixture.js
fixtureContent(pageObjectNames) ==
    IF Len(pageObjectNames) > 0
    THEN LET importStatements ==
                 join([n \in DOMAIN pageObjectNames |-> importStatementOf(pageObjectNames[n])], "\n")
             fixtureDefinitions ==
                 join([n \in DOMAIN pageObjectNames |-> fixtureDefinitionOf(pageObjectNames[n])], "\n")
         IN  <<"i", "m", "p", "o", "r", "t", " ", "{", " ", "t", "e", "s", "t", " ", "a", "s", " ", "b", "a", "s", "e", "T", "e", "s", "t", " ", "}", " ", "f", "r", "o", "m", " ", "'", "@", "p", "l", "a", "y", "w", "r", "i", "g", "h", "t", "/", "t", "e", "s", "t", "'", ";", "\n">>
             \o (IF Len(importStatements) > 0 THEN importStatements \o <<"\n">> ELSE << >>)
             \o <<"\n", "c", "o", "n", "s", "t", " ", "t", "e", "s", "t", " ", "=", " ", "b", "a", "s", "e", "T", "e", "s", "t", ".", "e", "x", "t", "e", "n", "d", "(", "{", "\n">>
             \o (IF Len(fixtureDefinitions) > 0 THEN fixtureDefinitions \o <<"\n">> ELSE << >>)
             \o <<"}", ")", ";", "\n", "\n", "e", "x", "p", "o", "r", "t", " ", "d", "e", "f", "a", "u", "l", "t", " ", "t", "e", "s", "t", ";", "\n">>
    ELSE MinimalFixture

----------------------------------------------------------------------------
(* The state of the two components                                        *)

VARIABLES
    headers,                     \* validateExcelSchema: the header row
    dataRows,                    \* validateExcelSchema: the data rows
    vpc,                         \* where validateExcelSchema is
    vi,                          \* its loop index i over dataRows
    vLastValidScenarioTitle,     \* its local lastValidScenarioTitle
    hasAtLeastOneValidScenario,  \* its local of that name
    vwarnings,                   \* the console.warn calls made so far
    verror                       \* the Error it threw, if any

vvars == << headers, dataRows, vpc, vi, vLastValidScenarioTitle,
            hasAtLeastOneValidScenario, vwarnings, verror >>

VARIABLES
    testDataArray,         \* generateCode: the scenario groups of the request
    before,                \* the file mapping as the pass received it
    aiGeneratedStructure,  \* the file mapping the pass rewrites in place
    fileOrder,             \* the order in which for-in visits the keys
    run,                   \* 1 on the model's output, 2 on the pass's own output
    pc,                    \* where the pass is
    fileIdx,               \* how many keys the for-in loop has visited
    filePath,              \* the key of the test file last split into lines
    correspondingScenario, \* the index of its group in testDataArray, 0 for none
    lines,                 \* its local lines
    newLines,              \* its local newLines
    i,                     \* the index i of the line loop
    testCaseCounter,       \* its local testCaseCounter
    last,                  \* the locals of the latest iteration of the line loop
    injections             \* the lines.splice calls made on the current file

pvars == << testDataArray, before, aiGeneratedStructure, fileOrder, run, pc,
            fileIdx, filePath, correspondingScenario, lines, newLines, i,
            testCaseCounter, last, injections >>

VARIABLES
    uploadRequest,            \* router.post of uploadExcel.js: what the request holds
    rows,                     \* parseExcelToJSON: the rows sheet_to_json delivers
    xpc,                      \* where the upload route and parseExcelToJSON are
    xi,                       \* the rowIndex of its loop over dataRows
    xLastValidScenarioTitle,  \* its local lastValidScenarioTitle
    groupedMap,               \* its Map, as the entries in insertion order
    xlog,                     \* its console.warn and console.error calls
    pushes,                   \* its tests.push calls, in the order made
    uploadResponse            \* what the upload route answered

xvars == << uploadRequest, rows, xpc, xi, xLastValidScenarioTitle, groupedMap,
            xlog, pushes, uploadResponse >>

VARIABLES
    givenTitle,  \* the scenarioTitle that toShortFeatureName is called with
    shortNames   \* what its calls returned, in the order made

nvars == << givenTitle, shortNames >>

VARIABLES
    generateRequest,             \* router.post of generateFromJSON.js: the request
    parsedType,                  \* what JSON.parse returned: "object", "array", "null"
    gpc,                         \* where the generation route and generateCode are
    anyMeaningfulCodeGenerated,  \* the route's local of that name
    written,                     \* the keys of aiOutput written as files, in order
    generateResponse             \* what the generation route answered

gvars == << generateRequest, parsedType, gpc, anyMeaningfulCodeGenerated, written,
            generateResponse >>

VARIABLES
    routeRequest,   \* router.post of generateFromJSON.js: the body of each request
    rpc,            \* where the handler of each request is
    projectDir,     \* its local projectDir, once the path is validated
    disk,           \* the files on the disk: path and the request that wrote it
    dirs,           \* the directories on the disk
    cleared,        \* the fs.rmSync calls made, in the order made
    routeStatus     \* the status each request was answered with, 0 for none yet

rvars == << routeRequest, rpc, projectDir, disk, dirs, cleared, routeStatus >>

VARIABLES
    currentParsedExcelData,  \* the client's window.currentParsedExcelData
    mpc,                     \* whether the client holds parsed data
    merges,                  \* how many times Add Selected was clicked
    selectedCheckboxes,      \* the boxes checked at the latest click
    newlyAddedCount          \* the handler's local of that name, at its end

mvars == << currentParsedExcelData, mpc, merges, selectedCheckboxes, newlyAddedCount >>

VARIABLES
    nlpInput,       \* processDataWithNlp: the testData it is called with
    epc,            \* where processDataWithNlp is
    groupIndex,     \* the group it is at
    testIndex,      \* the test of the group it is at
    fieldIndex,     \* the text field of the test it is at
    enrichments,    \* the enrichment calls issued, in the order issued
    inFlight,       \* the enrichment calls issued and not yet settled
    processedData   \* the processedData it builds and returns

evars == << nlpInput, epc, groupIndex, testIndex, fieldIndex, enrichments, inFlight,
            processedData >>

\* the state of the components that stand apart from the upload and the pass
furtherVars == << rvars, mvars, evars >>

vars == << vvars, pvars, xvars, nvars, gvars, furtherVars >>

\* what a step of the validator leaves as it is
exceptValidator == << pvars, xvars, nvars, gvars, furtherVars >>

\* what a step of the post-processing pass leaves as it is
exceptPostProcessor == << vvars, xvars, nvars, gvars, furtherVars >>

\* what a step of the upload route leaves as it is
exceptParser == << pvars, nvars, gvars, furtherVars >>

\* what a step of the generation route against the disk leaves as it is
exceptRoute == << vvars, pvars, xvars, nvars, gvars, mvars, evars >>

NoResponse == [status |-> 0, success |-> FALSE, parsedExcelData |-> << >>, error |-> "none"]

NoRequest == [file |-> FALSE, tool |-> FALSE, language |-> FALSE]

\* the upload route has not been called
ParserIdle ==
    /\ uploadRequest = NoRequest
    /\ rows = << >>
    /\ xpc = "idle"
    /\ xi = 0
    /\ xLastValidScenarioTitle = Null
    /\ groupedMap = << >>
    /\ xlog = << >>
    /\ pushes = << >>
    /\ uploadResponse = NoResponse

NoIteration ==
    [kind |-> "none", source |-> << >>, afterDescribe |-> << >>, pushed |-> << >>,
     k |-> 0, wanted |-> FALSE, existing |-> FALSE, assertionCode |-> << >>,
     injected |-> FALSE]

\* the post-processing pass has not been entered
PostProcessorIdle ==
    /\ testDataArray = << >>
    /\ before = << >>
    /\ aiGeneratedStructure = << >>
    /\ fileOrder = << >>
    /\ run = 0
    /\ pc = "idle"
    /\ fileIdx = 0
    /\ filePath = << >>
    /\ correspondingScenario = 0
    /\ lines = << >>
    /\ newLines = << >>
    /\ i = 0
    /\ testCaseCounter = 0
    /\ last = NoIteration
    /\ injections = << >>

\* validateExcelSchema has not been called
ValidatorIdle ==
    /\ headers = << >>
    /\ dataRows = << >>
    /\ vpc = "idle"
    /\ vi = 0
    /\ vLastValidScenarioTitle = Null
    /\ hasAtLeastOneValidScenario = FALSE
    /\ vwarnings = << >>
    /\ verror = NoError

----------------------------------------------------------------------------
(* validateExcelSchema, step by step                                       *)


\* toShortFeatureName has not been called on its own
NormalizerIdle ==
    /\ givenTitle = << >>
    /\ shortNames = << >>

NoGenerateRequest == [selection |-> FALSE, outputPath |-> FALSE, template |-> FALSE]

NoGenerateResponse == [status |-> 0, success |-> FALSE, error |-> "none"]

\* the generation route has not been called; the structure the pass works on
\* is a plain object
GeneratorIdle ==
    /\ generateRequest = NoGenerateRequest
    /\ parsedType = "object"
    /\ gpc = "idle"
    /\ anyMeaningfulCodeGenerated = FALSE
    /\ written = << >>
    /\ generateResponse = NoGenerateResponse

\* no request is being handled against the disk
RouteIdle ==
    /\ routeRequest = << >>
    /\ rpc = << >>
    /\ projectDir = << >>
    /\ disk = {}
    /\ dirs = {}
    /\ cleared = << >>
    /\ routeStatus = << >>

\* the client holds no parsed data
MergeIdle ==
    /\ currentParsedExcelData = << >>
    /\ mpc = "empty"
    /\ merges = 0
    /\ selectedCheckboxes = << >>
    /\ newlyAddedCount = 0

\* processDataWithNlp has not been called
EnricherIdle ==
    /\ nlpInput = << >>
    /\ epc = "idle"
    /\ groupIndex = 0
    /\ testIndex = 0
    /\ fieldIndex = 0
    /\ enrichments = << >>
    /\ inFlight = 0
    /\ processedData = << >>

\* the components that stand apart from the upload and the pass are idle
FurtherIdle == RouteIdle /\ MergeIdle /\ EnricherIdle

\* step 1 of validateExcelSchema: the first mandatory header that is absent throws
CheckHeaders ==
    /\ vpc = "headers"
    /\ IF missingHeaders(headers) # << >>
       THEN /\ vpc' = "thrown"
            /\ verror' = [kind |-> "MissingColumn", row |-> 0,
                          text |-> missingHeaders(headers)[1]]
       ELSE /\ vpc' = "rows"
            /\ verror' = verror
    /\ UNCHANGED << headers, dataRows, vi, vLastValidScenarioTitle,
                    hasAtLeastOneValidScenario, vwarnings >>
    /\ UNCHANGED exceptValidator

\* one iteration of the row loop of validateExcelSchema
CheckRow ==
    /\ vpc = "rows"
    /\ vi < Len(dataRows)
    /\ LET row == dataRows[vi + 1]
           excelRowNumber == vi + 2
           scenarioTitle == rowScenario(headers, row)
           lastTitle == IF scenarioTitle # << >> THEN Str(scenarioTitle)
                        ELSE vLastValidScenarioTitle
           currentScenarioTitle == IF lastTitle = Null THEN << >> ELSE lastTitle.v
           testcasePriority == rowPriority(headers, row)
           w1 == IF currentScenarioTitle = << >>
                 THEN << [kind |-> "EmptyScenario", row |-> excelRowNumber] >>
                 ELSE << >>
           w2 == IF rowCoreEmpty(headers, row)
                 THEN << [kind |-> "IncompleteRow", row |-> excelRowNumber] >>
                 ELSE << >>
       IN  /\ vLastValidScenarioTitle' = lastTitle
           /\ hasAtLeastOneValidScenario' =
                  (hasAtLeastOneValidScenario \/ currentScenarioTitle # << >>)
           /\ vwarnings' = vwarnings \o w1 \o w2
           /\ IF testcasePriority # << >> /\ testcasePriority \notin PRIORITIES
              THEN /\ vpc' = "thrown"
                   /\ verror' = [kind |-> "InvalidPriority", row |-> excelRowNumber,
                                 text |-> testcasePriority]
                   /\ vi' = vi
              ELSE /\ vpc' = "rows"
                   /\ verror' = verror
                   /\ vi' = vi + 1
    /\ UNCHANGED << headers, dataRows >>
    /\ UNCHANGED exceptValidator

\* after the loop: no scenario title at all is an error, else the schema passed
FinishValidation ==
    /\ vpc = "rows"
    /\ vi = Len(dataRows)
    /\ IF ~hasAtLeastOneValidScenario /\ Len(dataRows) > 0
       THEN /\ vpc' = "thrown"
            /\ verror' = [kind |-> "NoScenario", row |-> 0, text |-> << >>]
       ELSE /\ vpc' = "passed"
            /\ verror' = verror
    /\ UNCHANGED << headers, dataRows, vi, vLastValidScenarioTitle,
                    hasAtLeastOneValidScenario, vwarnings >>
    /\ UNCHANGED exceptValidator

----------------------------------------------------------------------------
(* The sheets the validator is run on                                      *)

\* the most data rows of a sheet
MaxRows == 2

\* the column names of a sheet the tool itself exports
ExportHeaders ==
    << H_TestScenario, H_TestCaseID, H_TestCaseDescription, H_DetailSteps,
       H_TestData, H_ExpectedResult, H_TestcasePriority >>

Reverse(s) == [n \in DOMAIN s |-> s[Len(s) + 1 - n]]

\* a header row: the export columns without those numbered in "absent", as
\* written, padded with white space, or in the opposite order
HeaderRow(absent, layout) ==
    LET kept == SelectSeq(ExportHeaders, LAMBDA h : indexOf(ExportHeaders, h) + 1 \notin absent)
        cells == [n \in DOMAIN kept |->
                    IF layout = "padded" THEN Str(<< " " >> \o kept[n] \o << " ", "\t" >>)
                    ELSE Str(kept[n])]
    IN  IF layout = "reversed" THEN Reverse(cells) ELSE cells

HeaderRows ==
    { HeaderRow(absent, "plain") : absent \in {{}} \cup {{n} : n \in 1..7} \cup {{2, 7}} }
    \cup { HeaderRow(absent, layout) :
              absent \in {{}, {2}, {6}}, layout \in {"padded", "reversed"} }

BlankScenario == Str(<<" ", " ">>)

LoginScenario == Str(<<" ", "L", "o", "g", "i", "n">>)

\* what a row says, before it is laid out under a header row: its scenario
\* cell, its priority cell, and whether description, steps and expected
\* result are filled in
RowContents ==
    { [scenario |-> LoginScenario, priority |-> Str(<<" ", "p", "2", " ">>), core |-> TRUE],
      [scenario |-> LoginScenario, priority |-> Str(<<"P", "4">>), core |-> TRUE],
      [scenario |-> LoginScenario, priority |-> Undefined, core |-> FALSE],
      [scenario |-> BlankScenario, priority |-> Str(<<"P", "3">>), core |-> TRUE],
      [scenario |-> BlankScenario, priority |-> Str(<<"h", "i", "g", "h">>), core |-> FALSE],
      [scenario |-> Undefined, priority |-> Str(<< >>), core |-> TRUE] }

\* the row of cells that holds "content" under the header row hs
LayOut(hs, content) ==
    [n \in DOMAIN hs |->
        LET h == trimCell(hs[n])
        IN  CASE h = H_TestScenario -> content.scenario
              [] h = H_TestcasePriority -> content.priority
              [] h = H_TestCaseID -> Str(<<"T", "C", "1">>)
              [] h = H_TestData -> Undefined
              [] OTHER -> IF content.core THEN Str(<<"o", "k">>) ELSE Str(<< >>)]

SeqsUpTo(S, n) == UNION { [1..k -> S] : k \in 0..n }

ValidatorStart ==
    /\ headers \in HeaderRows
    /\ \E contents \in SeqsUpTo(RowContents, MaxRows) :
           dataRows = [n \in DOMAIN contents |-> LayOut(headers, contents[n])]
    /\ vpc = "headers"
    /\ vi = 0
    /\ vLastValidScenarioTitle = Null
    /\ hasAtLeastOneValidScenario = FALSE
    /\ vwarnings = << >>
    /\ verror = NoError
    /\ PostProcessorIdle
    /\ ParserIdle
    /\ NormalizerIdle
    /\ GeneratorIdle
    /\ FurtherIdle

ValidatorNext == CheckHeaders \/ CheckRow \/ FinishValidation

SpecValidator == ValidatorStart /\ [][ValidatorNext]_vars

----------------------------------------------------------------------------
(* The post-processing pass, step by step                                  *)

Put(map, key, value) == [map EXCEPT ![key] = value]

\* lines[0] after the import correction
fixFirstLine(ls) == [ls EXCEPT ![1] = fixImportLine(ls[1])]

\* the for-in loop takes the next key: a key that is no test spec file is
\* passed over; a test file is split into lines and its first line corrected;
\* without a group for its name it is written back as it is
VisitFile ==
    /\ pc = "files"
    /\ fileIdx < Len(fileOrder)
    /\ \E path \in {fileOrder[fileIdx + 1]} :
       \E ls \in {fixFirstLine(split(aiGeneratedStructure[path], "\n"))} :
       \E found \in {findScenario(testDataArray, generatedFileNameWithoutExt(path), 1)} :
           IF ~isTestSpecPath(path)
           THEN /\ fileIdx' = fileIdx + 1
                /\ UNCHANGED << aiGeneratedStructure, pc, filePath, correspondingScenario,
                                lines, newLines, i, testCaseCounter, last, injections >>
           ELSE /\ filePath' = path
                /\ correspondingScenario' = found
                /\ lines' = ls
                /\ i' = 0
                /\ testCaseCounter' = 0
                /\ last' = NoIteration
                /\ injections' = << >>
                /\ IF found # 0
                   THEN /\ pc' = "lines"
                        /\ newLines' = << >>
                        /\ UNCHANGED << aiGeneratedStructure, fileIdx >>
                   ELSE /\ pc' = "files"
                        /\ newLines' = ls
                        /\ aiGeneratedStructure' = Put(aiGeneratedStructure, path, join(ls, "\n"))
                        /\ fileIdx' = fileIdx + 1
    /\ UNCHANGED << testDataArray, before, fileOrder, run >>
    /\ UNCHANGED exceptPostProcessor

\* the iteration of the line loop for a line that is no case declaration, or
\* one beyond the tests of the group: the line is pushed
PushLine(source, afterDescribe) ==
    /\ newLines' = Append(newLines, afterDescribe)
    /\ i' = i + 1
    /\ last' = [NoIteration EXCEPT !.kind = "plain", !.source = source,
                                   !.afterDescribe = afterDescribe,
                                   !.pushed = afterDescribe, !.k = testCaseCounter]
    /\ UNCHANGED << testCaseCounter, lines, injections >>

\* the iteration of the line loop for the case declaration of currentTestCase:
\* title and tags, the assertion, the brace scan and the splice
PushCase(source, afterDescribe, generatedTitle, currentTestCase) ==
    \E line \in {correctTestTitle(afterDescribe, generatedTitle,
                                  exactTestTitleOf(currentTestCase))} :
    \E wanted \in {trim(currentTestCase.expected) # << >>} :
    \E lowerExpected \in {toLowerCase(currentTestCase.expected)} :
    \E existing \in {wanted /\ hasExistingAssertion(lines, i)} :
    \E assertionCode \in {IF wanted
                          THEN assertionCodeFor(currentTestCase, lowerExpected, existing)
                          ELSE << >>} :
    \E scan \in {braceScan(lines, i + 1, 1)} :
    \E injected \in {assertionCode # << >> /\ scan.found} :
    \E inserted \in {<<" ", " ", " ", " ", " ", " ">> \o assertionCode} :
        /\ newLines' = Append(newLines, line)
        /\ testCaseCounter' = testCaseCounter + 1
        /\ lines' = IF injected THEN spliceIn(lines, scan.j - 1, inserted) ELSE lines
        /\ i' = IF injected THEN scan.j ELSE i + 1
        /\ injections' =
               IF injected
               THEN Append(injections,
                           [at |-> i, close |-> scan.j - 1,
                            between |-> SubSeq(lines, i + 2, scan.j - 1),
                            assertion |-> inserted, closing |-> lines[scan.j]])
               ELSE injections
        /\ last' = [kind |-> "case", source |-> source,
                    afterDescribe |-> afterDescribe, pushed |-> line,
                    k |-> testCaseCounter, wanted |-> wanted, existing |-> existing,
                    assertionCode |-> assertionCode, injected |-> injected]

\* one iteration of the line loop
ProcessLine ==
    /\ pc = "lines"
    /\ i < Len(lines)
    /\ \E group \in {testDataArray[correspondingScenario]} :
       \E source \in {lines[i + 1]} :
       \E afterDescribe \in {correctDescribeTitle(source, group.scenario)} :
       \E m \in {testMatch(afterDescribe)} :
           IF m.found /\ testCaseCounter < Len(group.tests)
           THEN PushCase(source, afterDescribe, m.title, group.tests[testCaseCounter + 1])
           ELSE PushLine(source, afterDescribe)
    /\ UNCHANGED << testDataArray, before, aiGeneratedStructure, fileOrder, run, pc,
                    fileIdx, filePath, correspondingScenario >>
    /\ UNCHANGED exceptPostProcessor

\* after the line loop: aiGeneratedStructure[filePath] = newLines.join('\n')
FinishFile ==
    /\ pc = "lines"
    /\ i >= Len(lines)
    /\ aiGeneratedStructure' = Put(aiGeneratedStructure, filePath, join(newLines, "\n"))
    /\ fileIdx' = fileIdx + 1
    /\ pc' = "files"
    /\ UNCHANGED << testDataArray, before, fileOrder, run, filePath,
                    correspondingScenario, lines, newLines, i, testCaseCounter, last,
                    injections >>
    /\ UNCHANGED exceptPostProcessor

\* a JavaScript string is truthy unless it is empty
truthy(s) == s # << >>

\* after the for-in loop: the rebuild of testFixtures/baseFixture.js; reading
\* a property of null is a TypeError, which ends the pass in its catch
RebuildFixture ==
    /\ pc = "files"
    /\ fileIdx = Len(fileOrder)
    /\ IF parsedType = "null"
       THEN /\ aiGeneratedStructure' = aiGeneratedStructure
            /\ pc' = "failed"
       ELSE /\ aiGeneratedStructure' =
                  IF /\ FixturePath \in DOMAIN aiGeneratedStructure
                     /\ truthy(aiGeneratedStructure[FixturePath])
                  THEN Put(aiGeneratedStructure, FixturePath,
                           fixtureContent(pageObjectNamesOf(testDataArray)))
                  ELSE aiGeneratedStructure
            /\ pc' = "done"
    /\ UNCHANGED << testDataArray, before, fileOrder, run, fileIdx, filePath,
                    correspondingScenario, lines, newLines, i, testCaseCounter, last,
                    injections >>
    /\ UNCHANGED exceptPostProcessor

\* the pass is run once more, on its own output and with the same groups
RunAgain ==
    /\ pc = "done"
    /\ run = 1
    /\ run' = 2
    /\ before' = aiGeneratedStructure
    /\ pc' = "files"
    /\ fileIdx' = 0
    /\ filePath' = << >>
    /\ correspondingScenario' = 0
    /\ lines' = << >>
    /\ newLines' = << >>
    /\ i' = 0
    /\ testCaseCounter' = 0
    /\ last' = NoIteration
    /\ injections' = << >>
    /\ UNCHANGED << testDataArray, aiGeneratedStructure, fileOrder >>
    /\ UNCHANGED exceptPostProcessor


----------------------------------------------------------------------------
(* Excel parser (server/utils/excelParser.js) and upload route             *)

\* the 0-based index of the last element equal to item; -1 when absent
lastIndexOf(arr, item) ==
    LET hits == {n \in DOMAIN arr : arr[n] = item}
    IN  IF hits = {} THEN -1 ELSE Max(hits) - 1

\* rowArray[index] !== undefined && rowArray[index] !== null
\*     ? String(rowArray[index]).trim() : ''
cellText(c) == IF c.t = "string" THEN trim(c.v) ELSE << >>

\* rowObject[header] || '': forEach assigns rowObject[header] column by
\* column, so of several columns with one trimmed name the last one stays
rowObjectAt(hs, rowArray, header) ==
    cellText(cellAt(rowArray, lastIndexOf(trimmedHeadersOf(hs), header)))

\* a Map is the sequence of its entries in insertion order
mapHas(m, key) == \E n \in DOMAIN m : m[n].key = key

mapGet(m, key) == m[CHOOSE n \in DOMAIN m : m[n].key = key].value

\* Map.prototype.set: a new key is appended, a known key keeps its place
mapSet(m, key, value) ==
    IF mapHas(m, key)
    THEN [n \in DOMAIN m |-> IF m[n].key = key THEN [key |-> key, value |-> value] ELSE m[n]]
    ELSE Append(m, [key |-> key, value |-> value])

\* a deviating conversion: the values in the opposite order
mapValues_Reversed(m) == [n \in DOMAIN m |-> m[Len(m) + 1 - n].value]

\* Array.from(map.values())
mapValues(m) == [n \in DOMAIN m |-> m[n].value]

DigitChars == << "0", "1", "2", "3", "4", "5", "6", "7", "8", "9" >>

\* String(n) of a non-negative integer
RECURSIVE Decimal(_)
Decimal(n) ==
    IF n < 10 THEN << DigitChars[n + 1] >>
    ELSE Decimal(n \div 10) \o << DigitChars[(n % 10) + 1] >>

\* .split('\n').map(s => s.trim()).filter(Boolean)
stepsOf(text) ==
    LET parts == split(text, "\n")
    IN  filterNonEmpty([n \in DOMAIN parts |-> trim(parts[n])])

\* a deviating group object: the page name is the short feature name
newGroup_PageIsShortName(pageCamelCaseName, determinedScenarioTitle, shortFeatureName) ==
    [page |-> shortFeatureName, scenario |-> determinedScenarioTitle,
     shortFeatureName |-> shortFeatureName, tests |-> << >>]

\* the group object a row creates for a short feature name not yet seen
newGroup(pageCamelCaseName, determinedScenarioTitle, shortFeatureName) ==
    [page |-> pageCamelCaseName, scenario |-> determinedScenarioTitle,
     shortFeatureName |-> shortFeatureName, tests |-> << >>]

\* a deviating placeholder: the cases of a group are numbered from 0
placeholderTitle_FromZero(determinedScenarioTitle, count) ==
    <<"T", "e", "s", "t", " ", "f", "o", "r", " ">> \o determinedScenarioTitle \o <<" ", "-", " ", "C", "a", "s", "e", " ">> \o Decimal(count)

\* the title of a row without description, count being tests.length before
placeholderTitle(determinedScenarioTitle, count) ==
    <<"T", "e", "s", "t", " ", "f", "o", "r", " ">> \o determinedScenarioTitle \o <<" ", "-", " ", "C", "a", "s", "e", " ">> \o Decimal(count + 1)

\* the object pushed to tests for a row, count being tests.length before
testCaseOf(hs, rowArray, determinedScenarioTitle, count) ==
    [id |-> rowObjectAt(hs, rowArray, H_TestCaseID),
     title |-> orElse(rowObjectAt(hs, rowArray, H_TestCaseDescription),
                      placeholderTitle(determinedScenarioTitle, count)),
     description |-> rowObjectAt(hs, rowArray, H_TestCaseDescription),
     steps |-> stepsOf(rowObjectAt(hs, rowArray, H_DetailSteps)),
     data |-> rowObjectAt(hs, rowArray, H_TestData),
     expected |-> rowObjectAt(hs, rowArray, H_ExpectedResult),
     priority |-> toUpperCase(rowObjectAt(hs, rowArray, H_TestcasePriority))]

\* a deviating lookup: no group is ever found, so every row sets a new one
hasGroup_Never(m, shortFeatureName) == FALSE

\* groupedMap.has(shortFeatureName)
hasGroup(m, shortFeatureName) == mapHas(m, shortFeatureName)

\* lines 86-111: the map after the row's group was created if need be and
\* the row's test case was pushed to it
withRow(m, hs, rowArray, determinedScenarioTitle, pageCamelCaseName, shortFeatureName) ==
    LET m1 == IF hasGroup(m, shortFeatureName) THEN m
              ELSE mapSet(m, shortFeatureName,
                          newGroup(pageCamelCaseName, determinedScenarioTitle,
                                   shortFeatureName))
        group == mapGet(m1, shortFeatureName)
    IN  mapSet(m1, shortFeatureName,
               [group EXCEPT !.tests =
                   Append(@, testCaseOf(hs, rowArray, determinedScenarioTitle,
                                        Len(group.tests)))])

\* a deviating determination: an empty scenario cell takes over no title
determineTitle_NoCarry(raw, lastValid) ==
    IF raw.t = "string" /\ trim(raw.v) # << >> THEN Str(trim(raw.v)) ELSE Null

\* lines 63-71: lastValidScenarioTitle after the row's scenario cell was
\* read; null when the row has no title and none was carried forward
determineTitle(raw, lastValid) ==
    IF raw.t = "string" /\ trim(raw.v) # << >> THEN Str(trim(raw.v)) ELSE lastValid

\* a deviating test: the row is skipped when its short feature name is empty
noIdentifier_ByShortName(pageCamelCaseName, shortFeatureName) == shortFeatureName = << >>

\* line 81: pageCamelCaseName === '', the test that skips the row
noIdentifier(pageCamelCaseName, shortFeatureName) == pageCamelCaseName = << >>

\* router.post('/') of uploadExcel.js up to the call of parseExcelToJSON
HandleUpload ==
    /\ xpc = "request"
    /\ IF ~uploadRequest.file
       THEN /\ xpc' = "responded"
            /\ uploadResponse' = [NoResponse EXCEPT !.status = 400, !.error = "NoFile"]
       ELSE IF ~uploadRequest.tool \/ ~uploadRequest.language
       THEN /\ xpc' = "responded"
            /\ uploadResponse' = [NoResponse EXCEPT !.status = 400, !.error = "NoSelection"]
       ELSE /\ xpc' = "read"
            /\ uploadResponse' = uploadResponse
    /\ UNCHANGED << uploadRequest, rows, xi, xLastValidScenarioTitle, groupedMap,
                    xlog, pushes >>
    /\ UNCHANGED vvars
    /\ UNCHANGED exceptParser

\* parseExcelToJSON from sheet_to_json to the call of validateExcelSchema
ReadSheet ==
    /\ xpc = "read"
    /\ IF rows = << >>
       THEN /\ xpc' = "returned"
            /\ xlog' = Append(xlog, [kind |-> "EmptyFile", row |-> 0])
            /\ UNCHANGED vvars
       ELSE IF rows[1] = << >>
       THEN /\ xpc' = "thrown"
            /\ xlog' = xlog
            /\ UNCHANGED vvars
       ELSE /\ xpc' = "validating"
            /\ xlog' = xlog
            /\ headers' = rows[1]
            /\ dataRows' = Tail(rows)
            /\ vpc' = "headers"
            /\ UNCHANGED << vi, vLastValidScenarioTitle, hasAtLeastOneValidScenario,
                            vwarnings, verror >>
    /\ UNCHANGED << uploadRequest, rows, xi, xLastValidScenarioTitle, groupedMap,
                    pushes, uploadResponse >>
    /\ UNCHANGED exceptParser

\* a deviating test: grouping starts as soon as the header check is over
validationReturned_AfterHeaders(at) == at \in {"rows", "passed"}

\* line 44: validateExcelSchema(headers, dataRows) has returned, given where
\* the validator is
validationReturned(at) == at = "passed"

\* validateExcelSchema returned: the column indices, the empty Map and
\* lastValidScenarioTitle = null
BeginGrouping ==
    /\ xpc = "validating"
    /\ validationReturned(vpc)
    /\ xpc' = "rows"
    /\ groupedMap' = << >>
    /\ xLastValidScenarioTitle' = Null
    /\ xi' = 0
    /\ UNCHANGED << uploadRequest, rows, xlog, pushes, uploadResponse >>
    /\ UNCHANGED vvars
    /\ UNCHANGED exceptParser

\* one iteration of the loop over dataRows.entries()
GroupRow ==
    /\ xpc = "rows"
    /\ xi < Len(dataRows)
    /\ \E rowArray \in {dataRows[xi + 1]}, excelRowNumber \in {xi + 2} :
       \E raw \in {cellAt(rowArray, indexOf(trimmedHeadersOf(headers), H_TestScenario))} :
       \E lastTitle \in {determineTitle(raw, xLastValidScenarioTitle)} :
          /\ xLastValidScenarioTitle' = lastTitle
          /\ IF lastTitle = Null
             THEN /\ xlog' = Append(xlog, [kind |-> "NoScenario", row |-> excelRowNumber])
                  /\ UNCHANGED << groupedMap, pushes >>
             ELSE \E determinedScenarioTitle \in {lastTitle.v} :
                  \E pageCamelCaseName \in {toCamelCase(determinedScenarioTitle)} :
                  \E shortFeatureName \in {toShortFeatureName(determinedScenarioTitle)} :
                     IF determinedScenarioTitle = << >>
                     THEN /\ xlog' = Append(xlog, [kind |-> "EmptyTitle", row |-> excelRowNumber])
                          /\ UNCHANGED << groupedMap, pushes >>
                     ELSE IF noIdentifier(pageCamelCaseName, shortFeatureName)
                     THEN /\ xlog' = Append(xlog, [kind |-> "NoPageName", row |-> excelRowNumber])
                          /\ UNCHANGED << groupedMap, pushes >>
                     ELSE /\ groupedMap' = withRow(groupedMap, headers, rowArray,
                                                   determinedScenarioTitle,
                                                   pageCamelCaseName, shortFeatureName)
                          /\ pushes' = Append(pushes,
                                 [row |-> excelRowNumber,
                                  scenario |-> determinedScenarioTitle,
                                  key |-> shortFeatureName])
                          /\ xlog' = xlog
    /\ xi' = xi + 1
    /\ UNCHANGED << uploadRequest, rows, xpc, uploadResponse >>
    /\ UNCHANGED vvars
    /\ UNCHANGED exceptParser

\* after the loop: the Map is returned, with a warning when it is empty
ReturnMap ==
    /\ xpc = "rows"
    /\ xi = Len(dataRows)
    /\ xpc' = "returned"
    /\ xlog' = IF groupedMap = << >>
               THEN Append(xlog, [kind |-> "NoGroups", row |-> 0]) ELSE xlog
    /\ UNCHANGED << uploadRequest, rows, xi, xLastValidScenarioTitle, groupedMap,
                    pushes, uploadResponse >>
    /\ UNCHANGED vvars
    /\ UNCHANGED exceptParser

\* res.json of the upload route: the values of the Map as an array
RespondParsed ==
    /\ xpc = "returned"
    /\ xpc' = "responded"
    /\ uploadResponse' = [status |-> 200, success |-> TRUE,
                          parsedExcelData |-> mapValues(groupedMap), error |-> "none"]
    /\ UNCHANGED << uploadRequest, rows, xi, xLastValidScenarioTitle, groupedMap,
                    xlog, pushes >>
    /\ UNCHANGED vvars
    /\ UNCHANGED exceptParser

\* the catch of the upload route: parseExcelToJSON or the validator threw
RespondFailed ==
    /\ \/ xpc = "thrown"
       \/ xpc = "validating" /\ vpc = "thrown"
    /\ xpc' = "responded"
    /\ uploadResponse' = [NoResponse EXCEPT !.status = 500,
                             !.error = IF xpc = "thrown" THEN "EmptyHeaderRow"
                                       ELSE verror.kind]
    /\ UNCHANGED << uploadRequest, rows, xi, xLastValidScenarioTitle, groupedMap,
                    xlog, pushes >>
    /\ UNCHANGED vvars
    /\ UNCHANGED exceptParser

----------------------------------------------------------------------------
(* The uploads the route is run on                                         *)

\* the most data rows of an uploaded sheet
MaxSheetRows == 3

\* the export columns followed by a second Testcase Priority column
TwoPriorityColumns ==
    [n \in 1..8 |-> IF n = 8 THEN Str(H_TestcasePriority) ELSE Str(ExportHeaders[n])]

SheetHeaderRows ==
    { HeaderRow({}, "plain"), HeaderRow({2}, "padded"), HeaderRow({}, "reversed"),
      HeaderRow({6}, "plain"), TwoPriorityColumns }

\* what a row of an uploaded sheet says: its scenario, description and
\* priority cells, and the cell under a second priority column if any
SheetRowContents ==
    { [scenario |-> Str(<<"L", "o", "g", "i", "n">>), description |-> Str(<<"O", "p", "e", "n", "s">>),
       priority |-> Str(<<" ", "p", "1", " ">>), priority2 |-> Str(<<"P", "2">>)],
      [scenario |-> Str(<<" ", "L", "o", "g", "i", "n", " ", "P", "a", "g", "e", " ">>), description |-> Str(<< >>),
       priority |-> Undefined, priority2 |-> Str(<<"H", "i", "g", "h">>)],
      [scenario |-> Str(<<"S", "e", "a", "r", "c", "h">>), description |-> Str(<<"F", "i", "n", "d", "s">>),
       priority |-> Str(<<"P", "3">>), priority2 |-> Undefined],
      [scenario |-> BlankScenario, description |-> Str(<<"O", "p", "e", "n", "s">>),
       priority |-> Str(<< >>), priority2 |-> Str(<< >>)],
      [scenario |-> Undefined, description |-> Undefined,
       priority |-> Str(<<"p", "2">>), priority2 |-> Str(<<"p", "2">>)],
      [scenario |-> Str(<<"*", "*", "*">>), description |-> Str(<<"O", "p", "e", "n", "s">>),
       priority |-> Str(<<"P", "1">>), priority2 |-> Str(<<"P", "1">>)],
      [scenario |-> Str(<<"L", "o", "g", "i", "n">>), description |-> Str(<<"O", "p", "e", "n", "s">>),
       priority |-> Str(<<"H", "i", "g", "h">>), priority2 |-> Str(<<"H", "i", "g", "h">>)] }

\* the row of cells that holds "content" under the header row hs
SheetRow(hs, content) ==
    [n \in DOMAIN hs |->
        LET h == trimCell(hs[n])
        IN  CASE h = H_TestScenario -> content.scenario
              [] h = H_TestcasePriority ->
                    IF indexOf(trimmedHeadersOf(hs), h) = n - 1 THEN content.priority
                    ELSE content.priority2
              [] h = H_TestCaseDescription -> content.description
              [] h = H_TestCaseID -> Str(<<"T", "C", "1">>)
              [] h = H_DetailSteps -> Str(<<" ", "O", "p", "e", "n", " ", "\n", "\n", " ", "C", "l", "i", "c", "k">>)
              [] h = H_TestData -> Undefined
              [] OTHER -> Str(<<"o", "k">>)]

Sheets ==
    { << >>, << << >> >> }
    \cup { << hs >> \o [n \in DOMAIN contents |-> SheetRow(hs, contents[n])] :
              hs \in SheetHeaderRows,
              contents \in SeqsUpTo(SheetRowContents, MaxSheetRows) }

CompleteRequest == [file |-> TRUE, tool |-> TRUE, language |-> TRUE]

Uploads ==
    { << CompleteRequest, sheet >> : sheet \in Sheets }
    \cup { << [CompleteRequest EXCEPT !.file = FALSE], << >> >>,
           << [CompleteRequest EXCEPT !.tool = FALSE], << >> >>,
           << [CompleteRequest EXCEPT !.language = FALSE], << >> >> }

ParserStart ==
    /\ \E upload \in Uploads :
          /\ uploadRequest = upload[1]
          /\ rows = upload[2]
    /\ xpc = "request"
    /\ xi = 0
    /\ xLastValidScenarioTitle = Null
    /\ groupedMap = << >>
    /\ xlog = << >>
    /\ pushes = << >>
    /\ uploadResponse = NoResponse
    /\ ValidatorIdle
    /\ PostProcessorIdle
    /\ NormalizerIdle
    /\ GeneratorIdle
    /\ FurtherIdle

ParserNext ==
    \/ HandleUpload
    \/ ReadSheet
    \/ CheckHeaders
    \/ CheckRow
    \/ FinishValidation
    \/ BeginGrouping
    \/ GroupRow
    \/ ReturnMap
    \/ RespondParsed
    \/ RespondFailed

SpecParser == ParserStart /\ [][ParserNext]_vars

----------------------------------------------------------------------------
(* toShortFeatureName called on its own, repeatedly with one title         *)

\* the most words of a title
MaxTitleWords == 3

\* the most calls made with one title
MaxCalls == 2

\* the words titles are made of: common, short, long, too long for the
\* budget, without letters, and with punctuation and a tab inside
TitleWords ==
    { <<"V", "e", "r", "i", "f", "y">>, <<"L", "o", "g", "i", "n">>, <<"a", "b">>, <<"A", "u", "t", "h", "e", "n", "t", "i", "c", "a", "t", "i", "o", "n">>, <<"I", "n", "t", "e", "r", "n", "a", "t", "i", "o", "n", "a", "l", "i", "z", "a", "t", "i", "o", "n">>,
      <<"A", "d", "m", "i", "n", "i", "s", "t", "r", "a", "t", "o", "r", "1", "2", "3", "4", "5", "6", "7", "8", "9", "0", "1", "2", "3">>, <<"*", "*", "*">>, <<"S", "i", "g", "n", "-", "U", "p", "\t", "N", "o", "w">> }

Titles == { join(ws, " ") : ws \in SeqsUpTo(TitleWords, MaxTitleWords) }

CallToShortFeatureName ==
    /\ Len(shortNames) < MaxCalls
    /\ shortNames' = Append(shortNames, toShortFeatureName(givenTitle))
    /\ UNCHANGED givenTitle
    /\ UNCHANGED << vvars, pvars, xvars, gvars, furtherVars >>

NormalizerStart ==
    /\ givenTitle \in Titles
    /\ shortNames = << >>
    /\ ValidatorIdle
    /\ PostProcessorIdle
    /\ ParserIdle
    /\ GeneratorIdle
    /\ FurtherIdle

NormalizerNext == CallToShortFeatureName

SpecNormalizer == NormalizerStart /\ [][NormalizerNext]_vars
----------------------------------------------------------------------------
(* The requests the post-processing pass is run on                         *)

\* the most blocks of lines in a generated test file
MaxBlocks == 2

TestCase(title, description, priority, expected, analysis) ==
    [title |-> title, description |-> description, priority |-> priority,
     expected |-> expected, analysis |-> analysis]

Analysis(action, validationType, url, expectedValue, target) ==
    [present |-> TRUE, action |-> action, validationType |-> validationType,
     url |-> url, expectedValue |-> expectedValue, target |-> target]

Group(scenario, shortFeatureName, tests) ==
    [scenario |-> scenario, shortFeatureName |-> shortFeatureName, tests |-> tests]

\* the title parseExcelToJSON gives a row without a description
Placeholder == <<"T", "e", "s", "t", " ", "f", "o", "r", " ", "L", "o", "g", "i", "n", " ", "-", " ", "C", "a", "s", "e", " ", "2">>

ValidLogin ==
    TestCase(<<"V", "a", "l", "i", "d", " ", "l", "o", "g", "i", "n">>, <<"V", "a", "l", "i", "d", " ", "l", "o", "g", "i", "n">>, <<"P", "1">>, <<"D", "a", "s", "h", "b", "o", "a", "r", "d", " ", "i", "s", " ", "d", "i", "s", "p", "l", "a", "y", "e", "d">>, NoAnalysis)

Undescribed ==
    TestCase(Placeholder, << >>, << >>, <<"T", "h", "e", " ", "U", "R", "L", " ", "c", "h", "a", "n", "g", "e", "s">>, NoAnalysis)

TextChecked ==
    TestCase(<<"G", "r", "e", "e", "t", "s", " ", "u", "s", "e", "r">>, <<"G", "r", "e", "e", "t", "s", " ", "u", "s", "e", "r">>, <<"P", "2">>, <<"W", "e", "l", "c", "o", "m", "e", " ", "i", "s", " ", "s", "h", "o", "w", "n">>,
             Analysis("verify", "text", << >>, <<"W", "e", "l", "c", "o", "m", "e">>, << >>))

Navigated ==
    TestCase(<<"O", "p", "e", "n", "s", " ", "h", "o", "m", "e">>, <<"O", "p", "e", "n", "s", " ", "h", "o", "m", "e">>, <<"P", "3">>, <<"H", "o", "m", "e", " ", "o", "p", "e", "n", "s">>,
             Analysis("navigate", "", <<"/", "h", "o", "m", "e">>, << >>, << >>))

UrlNamed ==
    TestCase(<<"P", "a", "y", " ", "$", "&", " ", "g", "o">>, <<"P", "a", "y", " ", "$", "&", " ", "g", "o">>, <<"L", "o", "w">>, <<"U", "R", "L", " ", "i", "s", " ", "h", "t", "t", "p", "s", ":", "/", "/", "a", ".", "i", "o", "/", "P", "a", "y">>, NoAnalysis)

Redirected ==
    TestCase(<<"R", "e", "d", "i", "r", "e", "c", "t", "s">>, <<"R", "e", "d", "i", "r", "e", "c", "t", "s">>, <<"P", "1">>, <<"G", "o", "e", "s", " ", "t", "o", " ", "h", "t", "t", "p", "s", ":", "/", "/", "a", ".", "i", "o", "/", "x">>, NoAnalysis)

VisibilityChecked ==
    TestCase(<<"L", "o", "g", "s", " ", "o", "u", "t">>, <<"L", "o", "g", "s", " ", "o", "u", "t">>, <<"P", "1">>, <<"L", "o", "g", "o", "u", "t", " ", "s", "h", "o", "w", "s">>,
             Analysis("verify", "visibility", << >>, << >>, <<"L", "o", "g", "o", "u", "t">>))

GenericChecked ==
    TestCase(<<"C", "a", "r", "t", " ", "c", "o", "u", "n", "t">>, <<"C", "a", "r", "t", " ", "c", "o", "u", "n", "t">>, << >>, <<"C", "o", "u", "n", "t", " ", "i", "s", " ", "2">>,
             Analysis("verify", "", << >>, <<"2">>, <<"c", "o", "u", "n", "t">>))

Clicked ==
    TestCase(<<"S", "a", "v", "e", "s">>, <<"S", "a", "v", "e", "s">>, <<"P", "2">>, <<"S", "a", "v", "e", "d">>,
             Analysis("click", "", << >>, << >>, << >>))

MessageShown ==
    TestCase(<<"W", "a", "r", "n", "s">>, <<"W", "a", "r", "n", "s">>, <<"P", "3">>, <<"E", "r", "r", "o", "r", " ", "m", "e", "s", "s", "a", "g", "e", " ", "a", "p", "p", "e", "a", "r", "s">>, NoAnalysis)

Unexpected ==
    TestCase(<<"O", "p", "e", "n", "s">>, <<"O", "p", "e", "n", "s">>, <<"P", "1">>, <<" ", " ">>, NoAnalysis)

Plain ==
    TestCase(<<"C", "l", "o", "s", "e", "s">>, <<"C", "l", "o", "s", "e", "s">>, << >>, <<"W", "i", "n", "d", "o", "w", " ", "c", "l", "o", "s", "e", "s">>, NoAnalysis)

\* the scenario groups of a request, by name
TestData(name) ==
    CASE name = "login" ->
             << Group(<<"L", "o", "g", "i", "n">>, <<"l", "o", "g", "i", "n">>, << ValidLogin, Undescribed >>) >>
      [] name = "twice" ->
             << Group(<<"L", "o", "g", "i", "n", " ", "P", "a", "g", "e">>, <<"l", "o", "g", "i", "n">>, << TextChecked, Navigated >>),
                Group(<<"C", "a", "r", "t">>, <<"c", "a", "r", "t">>, << Plain >>),
                Group(<<"L", "o", "g", "i", "n", "-", "P", "a", "g", "e">>, <<"l", "o", "g", "i", "n", "p", "a", "g", "e">>, << Unexpected >>) >>
      [] name = "unnamed" ->
             << Group(<<"?", "!">>, <<"g", "e", "n", "e", "r", "i", "c", "F", "e", "a", "t", "u", "r", "e">>, << Plain >>) >>
      [] name = "url" ->
             << Group(<<"L", "o", "g", "i", "n">>, <<"l", "o", "g", "i", "n">>, << UrlNamed, VisibilityChecked >>) >>
      [] name = "redirect" ->
             << Group(<<"L", "o", "g", "i", "n">>, <<"l", "o", "g", "i", "n">>, << Redirected, UrlNamed >>) >>
      [] name = "generic" ->
             << Group(<<"L", "o", "g", "i", "n">>, <<"l", "o", "g", "i", "n">>, << GenericChecked, Clicked >>) >>
      [] name = "keyword" ->
             << Group(<<"L", "o", "g", "i", "n">>, <<"l", "o", "g", "i", "n">>, << MessageShown, Unexpected, Plain >>) >>

ImportBlock == << <<"i", "m", "p", "o", "r", "t", " ", "{", " ", "t", "e", "s", "t", " ", "}", " ", "f", "r", "o", "m", " ", "'", ".", ".", "/", "t", "e", "s", "t", "F", "i", "x", "t", "u", "r", "e", "s", "/", "b", "a", "s", "e", "F", "i", "x", "t", "u", "r", "e", ".", "j", "s", "'", ";">> >>

DescribeBlock == << <<"t", "e", "s", "t", ".", "d", "e", "s", "c", "r", "i", "b", "e", "(", "'", "t", "e", "s", "t", "'", ",", " ", "(", ")", " ", "=", ">", " ", "{">> >>

EmptyDescribeBlock == << <<"t", "e", "s", "t", ".", "d", "e", "s", "c", "r", "i", "b", "e", "(", "\"", "\"", ",", " ", "(", ")", " ", "=", ">", " ", "{">> >>

CaseE ==
    << <<" ", " ", "t", "e", "s", "t", "(", "'", "e", "'", ",", " ", "a", "s", "y", "n", "c", " ", "(", "{", " ", "p", "a", "g", "e", " ", "}", ")", " ", "=", ">", " ", "{">>,
       <<" ", " ", " ", " ", "a", "w", "a", "i", "t", " ", "p", "a", "g", "e", ".", "g", "o", "t", "o", "(", "'", "/", "'", ")", ";">>,
       <<" ", " ", "}", ")", ";">> >>

CaseBrace ==
    << <<" ", " ", "t", "e", "s", "t", "(", "'", "V", "a", "l", "i", "d", " ", "l", "o", "g", "i", "n", "'", ",", " ", "a", "s", "y", "n", "c", " ", "(", "{", " ", "p", "a", "g", "e", " ", "}", ")", " ", "=", ">", " ", "{">>,
       <<" ", " ", " ", " ", "a", "w", "a", "i", "t", " ", "p", "a", "g", "e", ".", "f", "i", "l", "l", "(", "'", "#", "u", "'", ",", " ", "'", "{", "'", ")", ";">>,
       <<" ", " ", "}", ")", ";">> >>

CaseExpect ==
    << <<" ", " ", "t", "e", "s", "t", "(", "\"", "C", "a", "s", "e", " ", "2", "\"", ",", " ", "a", "s", "y", "n", "c", " ", "(", "{", "p", "a", "g", "e", "}", ")", " ", "=", ">", " ", "{">>,
       <<" ", " ", " ", " ", "a", "w", "a", "i", "t", " ", "e", "x", "p", "e", "c", "t", "(", "p", "a", "g", "e", ")", ".", "t", "o", "H", "a", "v", "e", "T", "i", "t", "l", "e", "(", "'", "x", "'", ")", ";">>,
       <<" ", " ", "}", ")", ";">> >>

CaseNested ==
    << <<" ", " ", "t", "e", "s", "t", "(", "'", "N", "e", "s", "t", "e", "d", "'", ",", " ", "a", "s", "y", "n", "c", " ", "(", "{", " ", "p", "a", "g", "e", " ", "}", ")", " ", "=", ">", " ", "{">>,
       <<" ", " ", " ", " ", "a", "w", "a", "i", "t", " ", "p", "a", "g", "e", ".", "e", "v", "a", "l", "u", "a", "t", "e", "(", "(", ")", " ", "=", ">", " ", "{", " ", "r", "e", "t", "u", "r", "n", " ", "{", " ", "a", ":", " ", "1", " ", "}", ";">>,
       <<" ", " ", " ", " ", "}", ")", ";">>,
       <<" ", " ", "}", ")", ";">> >>

CloseBlock == << <<"}", ")", ";">> >>

\* the blocks a generated test file is made of
Blocks(pool) ==
    CASE pool = "all" -> { ImportBlock, DescribeBlock, EmptyDescribeBlock, CaseE,
                           CaseBrace, CaseExpect, CloseBlock }
      [] pool = "cases" -> { CaseE, CaseBrace, CaseExpect }
      [] pool = "nested" -> { CaseE, CaseNested }

\* the contents of a generated test file: up to MaxBlocks blocks
FileContents(pool) ==
    { join(concatAll(blocks), "\n") : blocks \in SeqsUpTo(Blocks(pool), MaxBlocks) }

PageObject == <<"e", "x", "p", "o", "r", "t", " ", "c", "l", "a", "s", "s", " ", "L", "o", "g", "i", "n", "P", "a", "g", "e", " ", "{", "}">>

\* the file mapping the model returned, in the order of its keys
Layout(shape, content) ==
    CASE shape = "withFixture" ->
             << << <<"t", "e", "s", "t", "s", "/", "l", "o", "g", "i", "n", ".", "s", "p", "e", "c", ".", "j", "s">>, content >>,
                << <<"p", "a", "g", "e", "s", "/", "L", "o", "g", "i", "n", "P", "a", "g", "e", ".", "j", "s">>, PageObject >>,
                << FixturePath, <<"/", "/", " ", "o", "l", "d">> >> >>
      [] shape = "emptyFixture" ->
             << << FixturePath, << >> >>,
                << <<"t", "e", "s", "t", "s", "/", "l", "o", "g", "i", "n", ".", "t", "e", "s", "t", ".", "j", "s">>, content >> >>
      [] shape = "noFixture" ->
             << << <<"t", "e", "s", "t", "s", "/", "o", "t", "h", "e", "r", ".", "c", "y", ".", "j", "s">>, content >>,
                << <<"p", "a", "g", "e", "s", "/", "l", "o", "g", "i", "n", ".", "s", "p", "e", "c", ".", "j", "s">>, content >>,
                << <<"t", "e", "s", "t", "s", "/", "l", "o", "g", "i", "n", ".", "j", "s">>, content >> >>

\* the requests: the groups, the keys of the mapping and the blocks of its
\* test files
Requests ==
    { << "login", "withFixture", "all" >>, << "login", "emptyFixture", "cases" >>,
      << "login", "noFixture", "cases" >>, << "twice", "withFixture", "cases" >>,
      << "unnamed", "withFixture", "cases" >>, << "url", "withFixture", "cases" >>,
      << "generic", "withFixture", "cases" >>, << "keyword", "withFixture", "cases" >>,
      << "redirect", "withFixture", "cases" >>, << "login", "withFixture", "nested" >> }

Keys(entries) == [n \in DOMAIN entries |-> entries[n][1]]

Mapping(entries) ==
    [key \in Range(Keys(entries)) |->
        entries[CHOOSE n \in DOMAIN entries : entries[n][1] = key][2]]

Init ==
    /\ \E request \in Requests :
         \E content \in FileContents(request[3]) :
            LET entries == Layout(request[2], content)
            IN  /\ testDataArray = TestData(request[1])
                /\ fileOrder = Keys(entries)
                /\ before = Mapping(entries)
                /\ aiGeneratedStructure = Mapping(entries)
    /\ run = 1
    /\ pc = "files"
    /\ fileIdx = 0
    /\ filePath = << >>
    /\ correspondingScenario = 0
    /\ lines = << >>
    /\ newLines = << >>
    /\ i = 0
    /\ testCaseCounter = 0
    /\ last = NoIteration
    /\ injections = << >>
    /\ ValidatorIdle
    /\ ParserIdle
    /\ NormalizerIdle
    /\ GeneratorIdle
    /\ FurtherIdle

Next == VisitFile \/ ProcessLine \/ FinishFile \/ RebuildFixture \/ RunAgain

Spec == Init /\ [][Next]_vars


----------------------------------------------------------------------------
(* The generation route (server/generateFromJSON.js) around generateCode   *)

\* typeof aiGeneratedStructure !== 'object' || Array.isArray(aiGeneratedStructure)
notAnObjectOfFiles(type) == type \notin {"object", "array", "null"} \/ type = "array"

\* content && typeof content === 'string' && content.trim().length > 10
worthWriting(content) == Len(trim(content)) > 10

\* the route up to its call of generateCode, and generateCode up to
\* JSON.parse: the request checks, the static files, the model's answer
StartGeneration ==
    /\ gpc = "request"
    /\ IF ~generateRequest.selection
       THEN /\ generateResponse' = [status |-> 400, success |-> FALSE, error |-> "NoSelection"]
            /\ gpc' = "responded"
            /\ UNCHANGED << anyMeaningfulCodeGenerated, pc >>
       ELSE IF testDataArray = << >>
       THEN /\ generateResponse' = [status |-> 400, success |-> FALSE, error |-> "NoTestData"]
            /\ gpc' = "responded"
            /\ UNCHANGED << anyMeaningfulCodeGenerated, pc >>
       ELSE IF ~generateRequest.outputPath
       THEN /\ generateResponse' = [status |-> 400, success |-> FALSE, error |-> "InvalidPath"]
            /\ gpc' = "responded"
            /\ UNCHANGED << anyMeaningfulCodeGenerated, pc >>
       ELSE IF ~generateRequest.template
       THEN /\ generateResponse' = [status |-> 500, success |-> FALSE, error |-> "Unsupported"]
            /\ gpc' = "responded"
            /\ UNCHANGED << anyMeaningfulCodeGenerated, pc >>
       ELSE /\ generateResponse' = generateResponse
            /\ gpc' = "generating"
            /\ anyMeaningfulCodeGenerated' = TRUE
            /\ pc' = IF parsedType = "invalid" THEN "failed" ELSE "files"
    /\ UNCHANGED << generateRequest, parsedType, written >>
    /\ UNCHANGED << testDataArray, before, aiGeneratedStructure, fileOrder, run,
                    fileIdx, filePath, correspondingScenario, lines, newLines, i,
                    testCaseCounter, last, injections >>
    /\ UNCHANGED << vvars, xvars, nvars, furtherVars >>

\* the end of generateCode: the catch of the parse and the pass, the check
\* of the structure, the return; a throw is answered by the route's catch
FinishGenerateCode ==
    /\ gpc = "generating"
    /\ pc \in {"done", "failed"}
    /\ IF pc = "failed"
       THEN /\ generateResponse' = [status |-> 500, success |-> FALSE, error |-> "ParseOrPass"]
            /\ gpc' = "responded"
       ELSE IF notAnObjectOfFiles(parsedType)
       THEN /\ generateResponse' = [status |-> 500, success |-> FALSE, error |-> "NotAnObject"]
            /\ gpc' = "responded"
       ELSE /\ generateResponse' = generateResponse
            /\ gpc' = "returned"
    /\ UNCHANGED << generateRequest, parsedType, anyMeaningfulCodeGenerated, written >>
    /\ UNCHANGED << vvars, pvars, xvars, nvars, furtherVars >>

\* the route after generateCode returned: the files of aiOutput are written
\* unless it has no key, and the request is answered
WriteAndRespond ==
    /\ gpc = "returned"
    /\ \E files \in {IF fileOrder = << >> THEN << >>
                     ELSE SelectSeq(fileOrder,
                                    LAMBDA key : worthWriting(aiGeneratedStructure[key]))} :
          /\ written' = files
          /\ anyMeaningfulCodeGenerated' = (anyMeaningfulCodeGenerated \/ files # << >>)
          /\ generateResponse' =
                 IF anyMeaningfulCodeGenerated \/ files # << >>
                 THEN [status |-> 200, success |-> TRUE, error |-> "none"]
                 ELSE [status |-> 500, success |-> FALSE, error |-> "NothingGenerated"]
    /\ gpc' = "responded"
    /\ UNCHANGED << generateRequest, parsedType >>
    /\ UNCHANGED << vvars, pvars, xvars, nvars, furtherVars >>

CompleteGenerateRequest == [selection |-> TRUE, outputPath |-> TRUE, template |-> TRUE]

\* what the model answered: the type of the parsed value and its own
\* enumerable keys with their values, in for-in order
Answers ==
    { << "object", Layout(request[2], content), request[1] >> :
          request \in Requests, content \in FileContents("cases") }
    \cup { << "object", << >>, "login" >>,
           << "object", << << <<"t", "e", "s", "t", "s", "/", "l", "o", "g", "i", "n", ".", "s", "p", "e", "c", ".", "j", "s">>, <<" ", " ", "/", "/", " ", "t", "o", "d", "o", " ", " ">> >> >>, "login" >>,
           << "array", << << <<"0">>, join(CaseE, "\n") >>, << <<"1">>, PageObject >> >>, "login" >>,
           << "array", << >>, "login" >>,
           << "string", << << <<"0">>, <<"a">> >> >>, "login" >>,
           << "null", << >>, "login" >>,
           << "invalid", << >>, "login" >> }

GenerateRequests ==
    { << CompleteGenerateRequest, answer >> : answer \in Answers }
    \cup { << [CompleteGenerateRequest EXCEPT ![field] = FALSE],
              << "object", Layout("withFixture", join(CaseE, "\n")), "login" >> >> :
              field \in {"selection", "outputPath", "template"} }
    \cup { << CompleteGenerateRequest,
              << "object", Layout("withFixture", join(CaseE, "\n")), "none" >> >> }

GenerateStart ==
    /\ \E request \in GenerateRequests :
          /\ generateRequest = request[1]
          /\ parsedType = request[2][1]
          /\ fileOrder = Keys(request[2][2])
          /\ before = Mapping(request[2][2])
          /\ aiGeneratedStructure = Mapping(request[2][2])
          /\ testDataArray = IF request[2][3] = "none" THEN << >>
                             ELSE TestData(request[2][3])
    /\ gpc = "request"
    /\ anyMeaningfulCodeGenerated = FALSE
    /\ written = << >>
    /\ generateResponse = NoGenerateResponse
    /\ run = 1
    /\ pc = "waiting"
    /\ fileIdx = 0
    /\ filePath = << >>
    /\ correspondingScenario = 0
    /\ lines = << >>
    /\ newLines = << >>
    /\ i = 0
    /\ testCaseCounter = 0
    /\ last = NoIteration
    /\ injections = << >>
    /\ ValidatorIdle
    /\ ParserIdle
    /\ NormalizerIdle
    /\ FurtherIdle

GenerateNext ==
    \/ StartGeneration
    \/ VisitFile
    \/ ProcessLine
    \/ FinishFile
    \/ RebuildFixture
    \/ FinishGenerateCode
    \/ WriteAndRespond

SpecGenerate == GenerateStart /\ [][GenerateNext]_vars
----------------------------------------------------------------------------
(* The generation route (server/generateFromJSON.js) against the disk      *)

\* paths are taken in normal form (no '.', '..', doubled or trailing
\* separator), on which path.normalize and path.resolve change nothing

\* a property the body of the request does not have
Missing == << "undefined" >>

\* path.isAbsolute on a POSIX path
isAbsolute(p) == p # << >> /\ p[1] = "/"

\* path.join(resolvedPath, projectName) for a plain name
pathJoin(dir, name) == dir \o <<"/">> \o name

\* forbiddenSystemRoots: the entries a POSIX path can start with (the entries
\* built from the home directory and the installation are left out)
forbiddenSystemRoots ==
    { <<"/", "e", "t", "c">>, <<"/", "u", "s", "r">>, <<"/", "v", "a", "r">>, <<"/", "b", "i", "n">>, <<"/", "s", "b", "i", "n">>, <<"/", "l", "i", "b">>, <<"/", "d", "e", "v">>,
      <<"/", "p", "r", "o", "c">>, <<"/", "s", "y", "s">>, <<"/", "r", "o", "o", "t">> }

\* validateAndNormalizePath: whether it returns, and the path it returns
validateAndNormalizePath(inputPath, projectName) ==
    IF inputPath = Missing \/ trim(inputPath) = << >>
    THEN [ok |-> FALSE, path |-> << >>]
    ELSE IF ~isAbsolute(inputPath)
    THEN [ok |-> FALSE, path |-> << >>]
    ELSE IF \E forbiddenPath \in forbiddenSystemRoots :
                startsWith(toLowerCase(inputPath), forbiddenPath)
    THEN [ok |-> FALSE, path |-> << >>]
    ELSE [ok |-> TRUE, path |-> pathJoin(inputPath, projectName)]

\* whether the path lies inside the directory
inside(p, dir) == startsWith(p, dir \o <<"/">>)

\* the directories fs.mkdirSync(dir, { recursive: true }) makes sure of
ancestors(dir) ==
    { SubSeq(dir, 1, n) : n \in { m \in 2..Len(dir) : m = Len(dir) \/ dir[m + 1] = "/" } }

\* path.dirname of a path with a separator in it
dirname(p) == SubSeq(p, 1, lastIndexOf(p, "/"))

\* a deviating clear: the base output path goes, not the project folder
afterRm_WholeBase(files, dir) ==
    { f \in files : ~(f.path = dirname(dir) \/ inside(f.path, dirname(dir))) }

\* the files left by fs.rmSync(dir, { recursive: true, force: true })
afterRm(files, dir) == { f \in files : ~(f.path = dir \/ inside(f.path, dir)) }

\* the disk after writeFileSafely has written the files, in their order, for
\* the request
RECURSIVE writeFilesSafely(_, _, _, _)
writeFilesSafely(files, baseDir, names, by) ==
    IF names = << >> THEN files
    ELSE LET fullPath == pathJoin(baseDir, Head(names))
         IN  writeFilesSafely({ f \in files : f.path # fullPath }
                                  \cup { [path |-> fullPath, by |-> by] },
                              baseDir, Tail(names), by)

\* the directories after writeFileSafely has written the files
dirsAfterWrites(ds, baseDir, names) ==
    ds \cup UNION { ancestors(dirname(pathJoin(baseDir, names[n]))) : n \in DOMAIN names }

\* the switch on tool and language has a case for the combination
supportedCombination(tool, language) ==
    << tool, language >> \in
        { << <<"p", "l", "a", "y", "w", "r", "i", "g", "h", "t">>, <<"j", "a", "v", "a", "s", "c", "r", "i", "p", "t">> >>, << <<"p", "l", "a", "y", "w", "r", "i", "g", "h", "t">>, <<"t", "y", "p", "e", "s", "c", "r", "i", "p", "t">> >>,
          << <<"c", "y", "p", "r", "e", "s", "s">>, <<"j", "a", "v", "a", "s", "c", "r", "i", "p", "t">> >>, << <<"r", "o", "b", "o", "t", "f", "r", "a", "m", "e", "w", "o", "r", "k">>, <<"r", "o", "b", "o", "t">> >>,
          << <<"s", "e", "l", "e", "n", "i", "u", "m">>, <<"j", "a", "v", "a">> >>, << <<"s", "e", "l", "e", "n", "i", "u", "m">>, <<"p", "y", "t", "h", "o", "n">> >>,
          << <<"p", "l", "a", "y", "w", "r", "i", "g", "h", "t">>, <<"j", "a", "v", "a">> >>, << <<"p", "l", "a", "y", "w", "r", "i", "g", "h", "t">>, <<"p", "y", "t", "h", "o", "n">> >> }

\* the keys of the static templates, none of them with empty content
staticFiles(tool, language) ==
    CASE << tool, language >> = << <<"c", "y", "p", "r", "e", "s", "s">>, <<"j", "a", "v", "a", "s", "c", "r", "i", "p", "t">> >> ->
             << <<"p", "a", "c", "k", "a", "g", "e", ".", "j", "s", "o", "n">>, <<"c", "y", "p", "r", "e", "s", "s", ".", "c", "o", "n", "f", "i", "g", ".", "j", "s">>, <<".", "e", "n", "v">>, <<".", "g", "i", "t", "i", "g", "n", "o", "r", "e">>,
                <<"R", "E", "A", "D", "M", "E", ".", "m", "d">> >>
      [] << tool, language >> = << <<"s", "e", "l", "e", "n", "i", "u", "m">>, <<"j", "a", "v", "a">> >> ->
             << <<"p", "o", "m", ".", "x", "m", "l">>, <<"s", "r", "c", "/", "m", "a", "i", "n", "/", "j", "a", "v", "a", "/", "b", "a", "s", "e", "/", "B", "a", "s", "e", "T", "e", "s", "t", ".", "j", "a", "v", "a">>,
                <<"s", "r", "c", "/", "m", "a", "i", "n", "/", "j", "a", "v", "a", "/", "u", "t", "i", "l", "s", "/", "W", "e", "b", "D", "r", "i", "v", "e", "r", "S", "e", "t", "u", "p", ".", "j", "a", "v", "a">>, <<".", "e", "n", "v">>, <<".", "g", "i", "t", "i", "g", "n", "o", "r", "e">>,
                <<"R", "E", "A", "D", "M", "E", ".", "m", "d">> >>

\* !tool || !language || tool.trim() === '' || language.trim() === ''
blankSelection(tool, language) ==
    \/ tool = Missing \/ language = Missing
    \/ trim(tool) = << >> \/ trim(language) = << >>

\* a deviating filter: every group is kept
keptGroups_All(testData) == testData

\* testData.filter: the groups without a title and the generic ones go
keptGroups(testData) ==
    SelectSeq(testData,
              LAMBDA group :
                  LET scenarioTitle == trim(group.scenario)
                  IN  ~(\/ scenarioTitle = <<"G", "e", "n", "e", "r", "i", "c", " ", "F", "e", "a", "t", "u", "r", "e">>
                        \/ toCamelCase(scenarioTitle) = <<"g", "e", "n", "e", "r", "i", "c", "F", "e", "a", "t", "u", "r", "e">>
                        \/ scenarioTitle = << >>))

\* projectName = 'default_project' when the body has none
projectNameOf(request) ==
    IF request.projectName = Missing THEN <<"d", "e", "f", "a", "u", "l", "t", "_", "p", "r", "o", "j", "e", "c", "t">> ELSE request.projectName

ToStep(r, step) == [rpc EXCEPT ![r] = step]

Answer(r, status) ==
    /\ routeStatus' = [routeStatus EXCEPT ![r] = status]
    /\ rpc' = ToStep(r, "responded")

\* the handler from its entry to its first await: the checks of the body,
\* the validation of the path, the clearing of the project directory, the
\* static files, the call of processDataWithNlp
HandleGenerate(r) ==
    /\ rpc[r] = "request"
    /\ \E request \in {routeRequest[r]} :
       \E validated \in {validateAndNormalizePath(request.outputPath,
                                                   projectNameOf(request))} :
           IF blankSelection(request.tool, request.language)
           THEN /\ Answer(r, 400)
                /\ UNCHANGED << projectDir, disk, dirs, cleared >>
           ELSE IF ~request.isArray \/ request.testData = << >>
           THEN /\ Answer(r, 400)
                /\ UNCHANGED << projectDir, disk, dirs, cleared >>
           ELSE IF keptGroups(request.testData) = << >>
           THEN /\ Answer(r, 400)
                /\ UNCHANGED << projectDir, disk, dirs, cleared >>
           ELSE IF ~validated.ok
           THEN /\ Answer(r, 400)
                /\ UNCHANGED << projectDir, disk, dirs, cleared >>
           ELSE \E dir \in {validated.path} :
                \E existed \in {dir \in dirs} :
                \E emptied \in {IF existed THEN afterRm(disk, dir) ELSE disk} :
                \E made \in {{ d \in dirs : ~(existed /\ (d = dir \/ inside(d, dir))) }
                                 \cup ancestors(dir)} :
                    /\ projectDir' = [projectDir EXCEPT ![r] = dir]
                    /\ cleared' =
                           IF existed
                           THEN Append(cleared,
                                       [by |-> r, dir |-> dir, removed |-> disk \ emptied,
                                        awaiting |-> { q \in DOMAIN rpc :
                                                          rpc[q] \in {"nlp", "ai"} }])
                           ELSE cleared
                    /\ IF ~supportedCombination(request.tool, request.language)
                       THEN /\ disk' = emptied
                            /\ dirs' = made
                            /\ Answer(r, 500)
                       ELSE \E names \in {staticFiles(request.tool, request.language)} :
                                /\ disk' = writeFilesSafely(emptied, dir, names, r)
                                /\ dirs' = dirsAfterWrites(made, dir, names)
                                /\ rpc' = ToStep(r, "nlp")
                                /\ UNCHANGED routeStatus
    /\ UNCHANGED routeRequest
    /\ UNCHANGED exceptRoute

\* processDataWithNlp has resolved: the handler calls generateCode and waits
ResumeAfterNlp(r) ==
    /\ rpc[r] = "nlp"
    /\ rpc' = ToStep(r, "ai")
    /\ UNCHANGED << routeRequest, projectDir, disk, dirs, cleared, routeStatus >>
    /\ UNCHANGED exceptRoute

\* generateCode has settled: a throw is answered by the catch; the files of
\* aiOutput worth writing are written, and the request is answered (the
\* static files have set anyMeaningfulCodeGenerated)
ResumeAfterGenerateCode(r) ==
    /\ rpc[r] = "ai"
    /\ IF routeRequest[r].threw
       THEN /\ Answer(r, 500)
            /\ UNCHANGED << disk, dirs >>
       ELSE /\ disk' = writeFilesSafely(disk, projectDir[r], routeRequest[r].aiOutput, r)
            /\ dirs' = dirsAfterWrites(dirs, projectDir[r], routeRequest[r].aiOutput)
            /\ Answer(r, 200)
    /\ UNCHANGED << routeRequest, projectDir, cleared >>
    /\ UNCHANGED exceptRoute

\* the requests in flight at a time
RequestIds == {1, 2}

\* the testData of a body, by name
BodyTestData(name) ==
    CASE name = "generic" ->
             << Group(<<" ", "G", "e", "n", "e", "r", "i", "c", " ", "F", "e", "a", "t", "u", "r", "e", " ">>, <<"g", "e", "n", "e", "r", "i", "c", "F", "e", "a", "t", "u", "r", "e">>, << Plain >>),
                Group(<<"g", "e", "n", "e", "r", "i", "c", " ", "f", "e", "a", "t", "u", "r", "e">>, <<"g", "e", "n", "e", "r", "i", "c", "F", "e", "a", "t", "u", "r", "e">>, << Plain >>),
                Group(<<" ", " ">>, <<"g", "e", "n", "e", "r", "i", "c", "F", "e", "a", "t", "u", "r", "e">>, << Plain >>) >>
      [] name \in {"empty", "none"} -> << >>
      [] OTHER -> TestData(name)

\* the keys of what generateCode resolves with, by name
AiOutput(name) ==
    CASE name = "cypress" -> << <<"t", "e", "s", "t", "s", "/", "l", "o", "g", "i", "n", ".", "c", "y", ".", "j", "s">> >>
      [] name = "java" -> << <<"s", "r", "c", "/", "t", "e", "s", "t", "/", "j", "a", "v", "a", "/", "L", "o", "g", "i", "n", "T", "e", "s", "t", ".", "j", "a", "v", "a">> >>
      [] name \in {"nothing", "throws"} -> << >>

GenerateBody(tool, language, data, outputPath, projectName, answer) ==
    [tool |-> tool, language |-> language, isArray |-> data # "none",
     testData |-> BodyTestData(data), outputPath |-> outputPath,
     projectName |-> projectName, threw |-> answer = "throws",
     aiOutput |-> AiOutput(answer)]

GenerateBodies ==
    { GenerateBody(<<"c", "y", "p", "r", "e", "s", "s">>, <<"j", "a", "v", "a", "s", "c", "r", "i", "p", "t">>, "login", <<"/", "o", "u", "t">>, <<"p">>, "cypress"),
      GenerateBody(<<"s", "e", "l", "e", "n", "i", "u", "m">>, <<"j", "a", "v", "a">>, "login", <<"/", "o", "u", "t">>, <<"p">>, "java"),
      GenerateBody(<<"c", "y", "p", "r", "e", "s", "s">>, <<"j", "a", "v", "a", "s", "c", "r", "i", "p", "t">>, "unnamed", <<"/", "o", "u", "t", "/", "p">>, <<"q">>, "cypress"),
      GenerateBody(<<"c", "y", "p", "r", "e", "s", "s">>, <<"j", "a", "v", "a", "s", "c", "r", "i", "p", "t">>, "login", <<"/", "o", "u", "t">>, <<"p", "q">>, "nothing"),
      GenerateBody(<<"c", "y", "p", "r", "e", "s", "s">>, <<"j", "a", "v", "a", "s", "c", "r", "i", "p", "t">>, "login", <<"/", "o", "u", "t">>, Missing, "cypress"),
      GenerateBody(<<"c", "y", "p", "r", "e", "s", "s">>, <<"j", "a", "v", "a", "s", "c", "r", "i", "p", "t">>, "login", <<"/", "o", "u", "t">>, <<"p">>, "throws"),
      GenerateBody(<<"c", "y", "p", "r", "e", "s", "s">>, <<"j", "a", "v", "a">>, "login", <<"/", "o", "u", "t">>, <<"p">>, "cypress"),
      GenerateBody(Missing, <<"j", "a", "v", "a", "s", "c", "r", "i", "p", "t">>, "login", <<"/", "o", "u", "t">>, <<"p">>, "cypress"),
      GenerateBody(<<"c", "y", "p", "r", "e", "s", "s">>, <<" ", " ">>, "login", <<"/", "o", "u", "t">>, <<"p">>, "cypress"),
      GenerateBody(<<"c", "y", "p", "r", "e", "s", "s">>, <<"j", "a", "v", "a", "s", "c", "r", "i", "p", "t">>, "none", <<"/", "o", "u", "t">>, <<"p">>, "cypress"),
      GenerateBody(<<"c", "y", "p", "r", "e", "s", "s">>, <<"j", "a", "v", "a", "s", "c", "r", "i", "p", "t">>, "empty", <<"/", "o", "u", "t">>, <<"p">>, "cypress"),
      GenerateBody(<<"c", "y", "p", "r", "e", "s", "s">>, <<"j", "a", "v", "a", "s", "c", "r", "i", "p", "t">>, "generic", <<"/", "o", "u", "t">>, <<"p">>, "cypress"),
      GenerateBody(<<"c", "y", "p", "r", "e", "s", "s">>, <<"j", "a", "v", "a", "s", "c", "r", "i", "p", "t">>, "login", Missing, <<"p">>, "cypress"),
      GenerateBody(<<"c", "y", "p", "r", "e", "s", "s">>, <<"j", "a", "v", "a", "s", "c", "r", "i", "p", "t">>, "login", <<"o", "u", "t">>, <<"p">>, "cypress"),
      GenerateBody(<<"c", "y", "p", "r", "e", "s", "s">>, <<"j", "a", "v", "a", "s", "c", "r", "i", "p", "t">>, "login", <<"/", "E", "t", "c", "/", "x">>, <<"p">>, "cypress") }

\* what the disk holds before the requests: nothing, or a project generated
\* earlier
Disks ==
    { [files |-> {}, dirs |-> {}],
      [files |-> { [path |-> <<"/", "o", "u", "t", "/", "p", "/", "o", "l", "d", ".", "t", "x", "t">>, by |-> 0],
                   [path |-> <<"/", "o", "u", "t", "/", "p", "/", "q", "/", "k", "e", "p", "t", ".", "t", "x", "t">>, by |-> 0] },
       dirs |-> { <<"/", "o", "u", "t">>, <<"/", "o", "u", "t", "/", "p">>, <<"/", "o", "u", "t", "/", "p", "/", "q">> }] }

RouteStart ==
    /\ routeRequest \in [RequestIds -> GenerateBodies]
    /\ rpc = [r \in RequestIds |-> "request"]
    /\ projectDir = [r \in RequestIds |-> << >>]
    /\ \E d \in Disks : disk = d.files /\ dirs = d.dirs
    /\ cleared = << >>
    /\ routeStatus = [r \in RequestIds |-> 0]
    /\ ValidatorIdle
    /\ PostProcessorIdle
    /\ ParserIdle
    /\ NormalizerIdle
    /\ GeneratorIdle
    /\ MergeIdle
    /\ EnricherIdle

RouteNext ==
    \/ \E r \in RequestIds : HandleGenerate(r)
    \/ \E r \in RequestIds : ResumeAfterNlp(r)
    \/ \E r \in RequestIds : ResumeAfterGenerateCode(r)

SpecRoute == RouteStart /\ [][RouteNext]_vars

----------------------------------------------------------------------------
(* The client's parsed data and the merge of suggestions                   *)
(* (client/main-app.js, client/ai-suggestions-ui.js)                       *)

\* currentParsedExcelData.find(s => s.scenario === scenarioTitle): the index
\* of the first group with that title, 0 for none
RECURSIVE findByScenario(_, _, _)
findByScenario(data, scenarioTitle, n) ==
    IF n > Len(data) THEN 0
    ELSE IF data[n].scenario = scenarioTitle THEN n
    ELSE findByScenario(data, scenarioTitle, n + 1)

\* a deviating test: only the id is compared
isDuplicate_ById(tests, testCaseData) ==
    \E n \in DOMAIN tests : tests[n].id = testCaseData.id

\* targetScenario.tests.some(existingTc => existingTc.id === testCaseData.id
\*     || existingTc.title === testCaseData.title)
isDuplicate(tests, testCaseData) ==
    \E n \in DOMAIN tests :
        tests[n].id = testCaseData.id \/ tests[n].title = testCaseData.title

\* the body of selectedCheckboxes.forEach for one checkbox: the data and the
\* count after it
afterCheckbox(acc, checkbox) ==
    LET found == findByScenario(acc.data, checkbox.scenario, 1)
        withTarget == IF found # 0 THEN acc.data
                      ELSE Append(acc.data,
                                  newGroup(toCamelCase(checkbox.scenario),
                                           checkbox.scenario,
                                           toShortFeatureName(checkbox.scenario)))
        target == IF found # 0 THEN found ELSE Len(withTarget)
    IN  IF isDuplicate(withTarget[target].tests, checkbox.test)
        THEN [data |-> withTarget, count |-> acc.count]
        ELSE [data |-> [withTarget EXCEPT ![target].tests = Append(@, checkbox.test)],
              count |-> acc.count + 1]

\* selectedCheckboxes.forEach, in document order
RECURSIVE afterCheckboxes(_, _)
afterCheckboxes(acc, checkboxes) ==
    IF checkboxes = << >> THEN acc
    ELSE afterCheckboxes(afterCheckbox(acc, Head(checkboxes)), Tail(checkboxes))

\* main-app.js: the upload was answered with success, and the client keeps
\* data.parsedExcelData
KeepParsedData ==
    /\ mpc = "empty"
    /\ xpc = "responded"
    /\ uploadResponse.success
    /\ currentParsedExcelData' = uploadResponse.parsedExcelData
    /\ mpc' = "loaded"
    /\ UNCHANGED << merges, selectedCheckboxes, newlyAddedCount >>
    /\ UNCHANGED << vvars, pvars, xvars, nvars, gvars, rvars, evars >>

MaxMerges == 2

\* a suggested test case as the server sends it
SuggestedTest(id, title) ==
    [id |-> id, title |-> title, description |-> title,
     steps |-> << <<"O", "p", "e", "n">> >>, data |-> << >>, expected |-> <<"S", "h", "o", "w", "n">>,
     priority |-> <<"P", "2">>]

Checkbox(scenario, test) == [scenario |-> scenario, test |-> test]

\* the boxes the user can have checked when clicking Add Selected
Selections ==
    { << >>,
      << Checkbox(<<"L", "o", "g", "i", "n">>, SuggestedTest(<<"A", "I", "_", "1">>, <<"L", "o", "c", "k", "s", " ", "o", "u", "t">>)) >>,
      << Checkbox(<<"L", "o", "g", "i", "n">>, SuggestedTest(<<"A", "I", "_", "2">>, <<"O", "p", "e", "n", "s">>)) >>,
      << Checkbox(<<"L", "o", "g", "i", "n">>, SuggestedTest(<<"T", "C", "1">>, <<"R", "e", "s", "e", "t", "s">>)) >>,
      << Checkbox(<<"L", "o", "g", "i", "n", " ", "P", "a", "g", "e">>, SuggestedTest(<<"A", "I", "_", "3">>, <<"R", "e", "m", "e", "m", "b", "e", "r", "s">>)) >>,
      << Checkbox(<<"S", "e", "a", "r", "c", "h">>, SuggestedTest(<<"A", "I", "_", "4">>, <<"S", "o", "r", "t", "s">>)),
         Checkbox(<<"S", "e", "a", "r", "c", "h">>, SuggestedTest(<<"A", "I", "_", "5">>, <<"S", "o", "r", "t", "s">>)),
         Checkbox(<<"C", "h", "e", "c", "k", "o", "u", "t">>, SuggestedTest(<<"A", "I", "_", "6">>, <<"P", "a", "y", "s">>)) >> }

\* the click handler of addSelectedBtn: without a checked box it alerts and
\* returns; else every checked box is merged into currentParsedExcelData
AddSelected ==
    /\ mpc = "loaded"
    /\ merges < MaxMerges
    /\ merges' = merges + 1
    /\ \E checked \in Selections :
          /\ selectedCheckboxes' = checked
          /\ IF checked = << >>
             THEN UNCHANGED << currentParsedExcelData, newlyAddedCount >>
             ELSE \E merged \in {afterCheckboxes([data |-> currentParsedExcelData,
                                                   count |-> 0], checked)} :
                      /\ currentParsedExcelData' = merged.data
                      /\ newlyAddedCount' = merged.count
    /\ UNCHANGED mpc
    /\ UNCHANGED << vvars, pvars, xvars, nvars, gvars, rvars, evars >>

\* the uploads the merges are applied to: sheets of up to two rows under the
\* plain header row
MergeUploads ==
    { upload \in Uploads :
          /\ Len(upload[2]) <= 3
          /\ upload[2] # << >> => upload[2][1] \in {HeaderRow({}, "plain"), << >>} }

MergeStart ==
    /\ \E upload \in MergeUploads :
          /\ uploadRequest = upload[1]
          /\ rows = upload[2]
    /\ xpc = "request"
    /\ xi = 0
    /\ xLastValidScenarioTitle = Null
    /\ groupedMap = << >>
    /\ xlog = << >>
    /\ pushes = << >>
    /\ uploadResponse = NoResponse
    /\ ValidatorIdle
    /\ PostProcessorIdle
    /\ NormalizerIdle
    /\ GeneratorIdle
    /\ FurtherIdle

MergeNext ==
    \/ ParserNext
    \/ KeepParsedData
    \/ AddSelected

SpecMerge == MergeStart /\ [][MergeNext]_vars

----------------------------------------------------------------------------
(* processDataWithNlp (server/nlp-data-processor.js), as the specification *)
(* describes it: one enrichment call per text field, each awaited before   *)
(* the next, none of them able to end the batch                            *)

\* the text fields of a test case in the order of their calls: each step,
\* the description, the expected result
fieldsOf(tc) ==
    [n \in DOMAIN tc.steps |-> [kind |-> "step", text |-> tc.steps[n]]]
        \o << [kind |-> "description", text |-> tc.description],
              [kind |-> "expectedResult", text |-> tc.expected] >>

\* a deviating order: the description is passed over
positionAfter_NoDescription(data, g, t, f) ==
    LET tc == data[g].tests[t]
    IN  IF f < Len(fieldsOf(tc)) - 2 THEN [g |-> g, t |-> t, f |-> f + 1]
        ELSE IF f < Len(fieldsOf(tc)) THEN [g |-> g, t |-> t, f |-> Len(fieldsOf(tc))]
        ELSE [g |-> g, t |-> t + 1, f |-> 1]

\* the position after the field f of the test t of the group g: the next
\* field of the test, or the first field of the next test
positionAfter(data, g, t, f) ==
    IF f < Len(fieldsOf(data[g].tests[t])) THEN [g |-> g, t |-> t, f |-> f + 1]
    ELSE [g |-> g, t |-> t + 1, f |-> 1]

\* the first position at or after the given one that holds a field: groups
\* without tests, and the end of a group, are passed
RECURSIVE settled(_, _)
settled(data, at) ==
    IF at.g > Len(data) THEN at
    ELSE IF at.t > Len(data[at.g].tests) THEN settled(data, [g |-> at.g + 1, t |-> 1, f |-> 1])
    ELSE at

\* what processedData holds before any call: the groups and their tests,
\* without analyses
unprocessed(data) ==
    [g \in DOMAIN data |->
        [scenario |-> data[g].scenario,
         tests |-> [t \in DOMAIN data[g].tests |->
                       [title |-> data[g].tests[t].title, nlpAnalysis |-> << >>]]]]

\* the analysis kept for a call: its result, or nothing when it gave none or
\* failed
keptAnalysis(outcome) == IF outcome = "result" THEN "analysis" ELSE "none"

\* the next enrichment call is issued
IssueEnrichment ==
    /\ epc = "called"
    /\ groupIndex <= Len(nlpInput)
    /\ enrichments' =
           Append(enrichments,
                  [group |-> groupIndex, test |-> testIndex,
                   kind |-> fieldsOf(nlpInput[groupIndex].tests[testIndex])[fieldIndex].kind,
                   text |-> fieldsOf(nlpInput[groupIndex].tests[testIndex])[fieldIndex].text])
    /\ inFlight' = inFlight + 1
    /\ epc' = "awaiting"
    /\ UNCHANGED << nlpInput, groupIndex, testIndex, fieldIndex, processedData >>
    /\ UNCHANGED << vvars, pvars, xvars, nvars, gvars, rvars, mvars >>

\* the call in flight settles, with a result, without one, or with a failure:
\* what it gave is kept on the test and the loop goes on
SettleEnrichment ==
    /\ epc = "awaiting"
    /\ \E outcome \in {"result", "none", "failed"} :
          processedData' =
              [processedData EXCEPT ![groupIndex].tests[testIndex].nlpAnalysis =
                                        Append(@, keptAnalysis(outcome))]
    /\ inFlight' = inFlight - 1
    /\ \E next \in {settled(nlpInput,
                            positionAfter(nlpInput, groupIndex, testIndex, fieldIndex))} :
          /\ groupIndex' = next.g
          /\ testIndex' = next.t
          /\ fieldIndex' = next.f
    /\ epc' = "called"
    /\ UNCHANGED << nlpInput, enrichments >>
    /\ UNCHANGED << vvars, pvars, xvars, nvars, gvars, rvars, mvars >>

\* past the last group: processedData is returned
ReturnProcessedData ==
    /\ epc = "called"
    /\ groupIndex > Len(nlpInput)
    /\ epc' = "done"
    /\ UNCHANGED << nlpInput, groupIndex, testIndex, fieldIndex, enrichments, inFlight,
                    processedData >>
    /\ UNCHANGED << vvars, pvars, xvars, nvars, gvars, rvars, mvars >>

RawTest(title, steps, description, expected) ==
    [title |-> title, steps |-> steps, description |-> description, expected |-> expected]

\* the testData processDataWithNlp is called with
NlpInputs ==
    { << >>,
      << Group(<<"L", "o", "g", "i", "n">>, <<"l", "o", "g", "i", "n">>,
               << RawTest(<<"O", "p", "e", "n", "s">>, << <<"O", "p", "e", "n">>, <<"C", "l", "i", "c", "k">> >>, <<"O", "p", "e", "n", "s">>, <<"S", "h", "o", "w", "n">>) >>) >>,
      << Group(<<"L", "o", "g", "i", "n">>, <<"l", "o", "g", "i", "n">>,
               << RawTest(<<"O", "p", "e", "n", "s">>, << <<"O", "p", "e", "n">> >>, <<"O", "p", "e", "n", "s">>, <<"S", "h", "o", "w", "n">>),
                  RawTest(<<"C", "l", "o", "s", "e", "s">>, << >>, << >>, <<"G", "o", "n", "e">>) >>),
         Group(<<"E", "m", "p", "t", "y">>, <<"e", "m", "p", "t", "y">>, << >>),
         Group(<<"S", "e", "a", "r", "c", "h">>, <<"s", "e", "a", "r", "c", "h">>,
               << RawTest(<<"F", "i", "n", "d", "s">>, << >>, <<"F", "i", "n", "d", "s">>, << >>) >>) >> }

EnricherStart ==
    /\ nlpInput \in NlpInputs
    /\ epc = "called"
    /\ \E first \in {settled(nlpInput, [g |-> 1, t |-> 1, f |-> 1])} :
          /\ groupIndex = first.g
          /\ testIndex = first.t
          /\ fieldIndex = first.f
    /\ enrichments = << >>
    /\ inFlight = 0
    /\ processedData = unprocessed(nlpInput)
    /\ ValidatorIdle
    /\ PostProcessorIdle
    /\ ParserIdle
    /\ NormalizerIdle
    /\ GeneratorIdle
    /\ RouteIdle
    /\ MergeIdle

EnricherNext ==
    \/ IssueEnrichment
    \/ SettleEnrichment
    \/ ReturnProcessedData

SpecEnricher == EnricherStart /\ [][EnricherNext]_vars

----------------------------------------------------------------------------
(* Properties of the schema validator                                      *)

\* the header row, trimmed, holds the column name h
HasColumn(h) == \E n \in DOMAIN headers : trimCell(headers[n]) = h

ValidatorDone == vpc \in {"passed", "thrown"}

\* the 1-based data rows whose priority cell is a string that is non-empty
\* after trimming and is not P1, P2 or P3 in any letter case
BadPriorityRows ==
    { n \in DOMAIN dataRows :
        \E k \in DOMAIN headers :
            /\ trimCell(headers[k]) = H_TestcasePriority
            /\ \A k2 \in 1..(k - 1) : trimCell(headers[k2]) # H_TestcasePriority
            /\ k \in DOMAIN dataRows[n]
            /\ dataRows[n][k].t = "string"
            /\ trim(dataRows[n][k].v) # << >>
            /\ toUpperCase(trim(dataRows[n][k].v)) \notin { <<"P", "1">>, <<"P", "2">>, <<"P", "3">> } }

\* the 1-based data rows whose scenario cell is a string that is non-empty
\* after trimming
TitledRows ==
    { n \in DOMAIN dataRows :
        \E k \in DOMAIN headers :
            /\ trimCell(headers[k]) = H_TestScenario
            /\ \A k2 \in 1..(k - 1) : trimCell(headers[k2]) # H_TestScenario
            /\ k \in DOMAIN dataRows[n]
            /\ dataRows[n][k].t = "string"
            /\ trim(dataRows[n][k].v) # << >> }

\* C9 as stated: validation fails whenever any one of the seven names Test
\* Scenario, Test Case ID, Test Case Description, Detail Steps, Test Data,
\* Expected Result, Testcase Priority is absent from the trimmed header row.
C9_SevenNamesMandatory ==
    (ValidatorDone /\ \E h \in Range(ExportHeaders) : ~HasColumn(h))
        => (vpc = "thrown" /\ verror.kind = "MissingColumn")

\* C9 amended: once the header check has run, validation has failed with a
\* missing-column error naming an absent column whenever any one of the six
\* names Test Scenario, Test Case Description, Detail Steps, Test Data,
\* Expected Result, Testcase Priority is absent from the trimmed header row;
\* Test Case ID is not among the mandatory names.
C9_SixNamesMandatory ==
    LET six == { H_TestScenario, H_TestCaseDescription, H_DetailSteps,
                 H_TestData, H_ExpectedResult, H_TestcasePriority }
    IN  (vpc # "headers" /\ \E h \in six : ~HasColumn(h))
            => /\ vpc = "thrown"
               /\ verror.kind = "MissingColumn"
               /\ verror.text \in six
               /\ ~HasColumn(verror.text)

\* C9 witness: a padded header row without Expected Result, with data rows,
\* has been rejected
C9_Witness ==
    /\ vpc = "thrown"
    /\ verror.kind = "MissingColumn"
    /\ verror.text = H_ExpectedResult
    /\ HasColumn(H_TestCaseID)
    /\ \E n \in DOMAIN headers : headers[n].v # trimCell(headers[n])
    /\ Len(dataRows) > 0

\* C10 as stated: for a header-valid input validation throws if and only if
\* some data row has a priority cell that is non-empty after trimming and not
\* P1, P2 or P3 in any letter case, and the error names row i + 2 of the first
\* such row.
C10_ThrowsIffBadPriority ==
    (ValidatorDone /\ missingHeaders(headers) = << >>)
        => /\ (vpc = "thrown") <=> (BadPriorityRows # {})
           /\ BadPriorityRows # {} => verror.row = Min(BadPriorityRows) + 1

\* C10 amended: for a header-valid input validation throws if and only if
\* some data row has such a priority cell, or there is at least one data row
\* and no data row has a scenario cell that is non-empty after trimming; when
\* some row has such a priority cell the error is the invalid-priority error
\* naming row i + 2 of the first such row.
C10_ThrowsIffBadPriorityOrNoScenario ==
    (ValidatorDone /\ \A h \in Range(MANDATORY_HEADERS) : HasColumn(h))
        => /\ (vpc = "thrown") <=>
                  (BadPriorityRows # {} \/ (Len(dataRows) > 0 /\ TitledRows = {}))
           /\ BadPriorityRows # {} =>
                  /\ verror.kind = "InvalidPriority"
                  /\ verror.row = Min(BadPriorityRows) + 1
           /\ (vpc = "thrown" /\ BadPriorityRows = {}) => verror.kind = "NoScenario"

\* C10 witness: the second data row is the first with an illegal priority,
\* after a row whose lower-case, padded priority was accepted
C10_Witness ==
    /\ vpc = "thrown"
    /\ verror.kind = "InvalidPriority"
    /\ verror.row = 3
    /\ Len(dataRows) = 2
    /\ trimCell(cellAt(dataRows[1], indexOf(trimmedHeadersOf(headers), H_TestcasePriority))) = <<"p", "2">>

----------------------------------------------------------------------------
(* Properties of the post-processing pass                                  *)

\* a key under tests/ that ends like a spec file
IsTestsSpecKey(key) ==
    /\ StartsWithAt(key, 1, <<"t", "e", "s", "t", "s", "/">>)
    /\ \E suffix \in {<<".", "s", "p", "e", "c", ".", "j", "s">>, <<".", "t", "e", "s", "t", ".", "j", "s">>, <<".", "c", "y", ".", "j", "s">>} :
          StartsWithAt(key, Len(key) - Len(suffix) + 1, suffix)

\* C1: every key the mapping had when the pass received it is still a key,
\* and the value of every key that is neither a tests/ spec file nor
\* testFixtures/baseFixture.js is the value it had.
C1_KeysKeptOthersUnchanged ==
    /\ DOMAIN before \subseteq DOMAIN aiGeneratedStructure
    /\ \A key \in DOMAIN before :
          (~IsTestsSpecKey(key) /\ key # FixturePath)
              => aiGeneratedStructure[key] = before[key]

\* a finished pass that rewrote a test file and the fixture and kept the
\* page object beside them
C1_Witness ==
    /\ pc = "done"
    /\ \E key \in DOMAIN before :
          IsTestsSpecKey(key) /\ aiGeneratedStructure[key] # before[key]
    /\ FixturePath \in DOMAIN before
    /\ aiGeneratedStructure[FixturePath] # before[FixturePath]
    /\ \E key \in DOMAIN before :
          ~IsTestsSpecKey(key) /\ key # FixturePath
              /\ aiGeneratedStructure[key] = before[key]

\* the titles Match finds in the lines of a file, top to bottom
TitlesIn(Match(_), content) ==
    LET ls == split(content, "\n")
        matching == SelectSeq(ls, LAMBDA l : Match(l).found)
    IN  [n \in DOMAIN matching |-> Match(matching[n]).title]

\* C2: the second run of the pass, on the output of the first and with the
\* same groups, leaves the describe titles and the case titles of every test
\* file and the fixture file as the first run left them.
C2_SecondRunChangesNothing ==
    (pc = "done" /\ run = 2) =>
        /\ \A key \in DOMAIN before :
              IsTestsSpecKey(key) =>
                  /\ TitlesIn(describeMatch, aiGeneratedStructure[key])
                         = TitlesIn(describeMatch, before[key])
                  /\ TitlesIn(testMatch, aiGeneratedStructure[key])
                         = TitlesIn(testMatch, before[key])
        /\ FixturePath \in DOMAIN before
              => aiGeneratedStructure[FixturePath] = before[FixturePath]

\* seq occurs in arr as a run of neighbouring elements
HasRun(arr, seq) ==
    \E p \in 1..(Len(arr) - Len(seq) + 1) : SubSeq(arr, p, p + Len(seq) - 1) = seq

\* C3: once a test file is finished, for every assertion that was synthesized
\* for a case at line i and whose scan closed at line c, the output holds the
\* lines that were between i and c, then the assertion, then the line that
\* was at c.
C3_AssertionBeforeClosingLine ==
    (pc \in {"files", "done"}) =>
        \A n \in DOMAIN injections :
            HasRun(newLines,
                   injections[n].between
                       \o << injections[n].assertion, injections[n].closing >>)

\* C4: a matched case with a non-blank expected result and no assertion in
\* the lookahead window gets exactly one synthesized line.
C4_ExactlyOneLine ==
    (last.kind = "case" /\ last.wanted /\ ~last.existing) =>
        /\ last.assertionCode # << >>
        /\ \A n \in DOMAIN last.assertionCode : last.assertionCode[n] # "\n"

\* the tag prefix of a priority
PrefixOf(priority) ==
    IF priority = <<"P", "1">> THEN <<"@", "s", "m", "o", "k", "e", " ", "@", "r", "e", "g", " ">>
    ELSE IF priority = <<"P", "2">> THEN <<"@", "s", "a", "n", "i", "t", "y", " ", "@", "r", "e", "g", " ">>
    ELSE IF priority = <<"P", "3">> THEN <<"@", "r", "e", "g", " ">>
    ELSE << >>

\* C5: the line pushed for the k-th matched case declaration declares the
\* title prefix(priority) followed by the description of the k-th test case;
\* a case declaration beyond the tests of the group is pushed as it was.
C5_TitleIsPrefixAndDescription ==
    /\ last.kind = "case" =>
          LET tc == testDataArray[correspondingScenario].tests[last.k + 1]
          IN  /\ testMatch(last.pushed).found
              /\ testMatch(last.pushed).title = PrefixOf(tc.priority) \o tc.description
    /\ (last.kind = "plain" /\ testMatch(last.afterDescribe).found)
          => last.pushed = last.afterDescribe

\* C6: a describe line whose title differs from the scenario title of the
\* group is the same line with the scenario title in the place of the
\* captured title.
C6_OnlyTitleReplaced ==
    LET m == describeMatch(last.source)
        scenario == testDataArray[correspondingScenario].scenario
        p == Leftmost(describeAt, last.source, 1)
        titleStart == p + Len(<<"t", "e", "s", "t", ".", "d", "e", "s", "c", "r", "i", "b", "e", "(">>) + 1
    IN  (last.kind # "none" /\ m.found /\ m.title # scenario) =>
            last.afterDescribe =
                SubSeq(last.source, 1, titleStart - 1) \o scenario
                    \o SubSeq(last.source, titleStart + Len(m.title), Len(last.source))

\* C7: after the pass a mapping that had the key testFixtures/baseFixture.js
\* holds the constructed fixture there, whatever it held before.
C7_FixtureAlwaysReplaced ==
    (pc = "done" /\ FixturePath \in DOMAIN before) =>
        aiGeneratedStructure[FixturePath]
            = fixtureContent(pageObjectNamesOf(testDataArray))

\* the PascalCase names of the groups, without the empty name
IdentifiersOf(groups) ==
    { toPascalCase(groups[n].scenario) : n \in DOMAIN groups } \ { << >> }

FirstGroupOf(groups, name) ==
    Min({ n \in DOMAIN groups : toPascalCase(groups[n].scenario) = name })

\* the identifiers, each once, in the order of their first group
FirstAppearance(groups) ==
    [k \in 1..Cardinality(IdentifiersOf(groups)) |->
        CHOOSE name \in IdentifiersOf(groups) :
            Cardinality({ other \in IdentifiersOf(groups) :
                             FirstGroupOf(groups, other) < FirstGroupOf(groups, name) })
                = k - 1]

\* the text of s between the first "opening" and the "closing" that follows it
Between(s, opening, closing) ==
    LET from == IndexOf(s, opening) + Len(opening)
    IN  SubSeq(s, from, IndexFrom(s, closing, from) - 1)

IsPageImport(line) ==
    /\ StartsWithAt(line, 1, <<"i", "m", "p", "o", "r", "t", " ", "{", " ">>)
    /\ IndexOf(line, <<"P", "a", "g", "e", " ", "}", " ", "f", "r", "o", "m", " ", "'", ".", ".", "/", "p", "a", "g", "e", "s", "/">>) # 0

IsFactoryEntry(line) ==
    /\ IndexOf(line, <<"P", "a", "g", "e", ":", " ", "a", "s", "y", "n", "c", " ", "(", "{", " ", "p", "a", "g", "e", " ", "}", ",", " ", "u", "s", "e", ")", " ", "=", ">", " ", "{">>) # 0
    /\ IndexOf(line, <<"a", "w", "a", "i", "t", " ", "u", "s", "e", "(", "n", "e", "w", " ">>) # 0

\* the identifiers the page-object import lines of a fixture name
ImportedNames(content) ==
    LET found == SelectSeq(split(content, "\n"), IsPageImport)
    IN  [n \in DOMAIN found |-> Between(found[n], <<"i", "m", "p", "o", "r", "t", " ", "{", " ">>, <<"P", "a", "g", "e", " ", "}", " ", "f", "r", "o", "m">>)]

\* the identifiers the factory entries of a fixture construct
FactoryNames(content) ==
    LET found == SelectSeq(split(content, "\n"), IsFactoryEntry)
    IN  [n \in DOMAIN found |-> Between(found[n], <<"a", "w", "a", "i", "t", " ", "u", "s", "e", "(", "n", "e", "w", " ">>, <<"P", "a", "g", "e", "(", "p", "a", "g", "e", ")">>)]

FixtureRegenerated ==
    /\ pc = "done"
    /\ FixturePath \in DOMAIN before
    /\ before[FixturePath] # << >>

\* C8: a regenerated fixture has one page-object import line and one factory
\* entry for each distinct identifier, in the order of first appearance, none
\* when there is no identifier, and the second run regenerates the same
\* fixture from the first run's as the first run did from the model's.
C8_OneImportAndOneEntryPerIdentifier ==
    FixtureRegenerated =>
        LET content == aiGeneratedStructure[FixturePath]
            identifiers == FirstAppearance(testDataArray)
        IN  /\ ImportedNames(content) = identifiers
            /\ FactoryNames(content) = identifiers
            /\ identifiers = << >> => IndexOf(content, <<"b", "a", "s", "e", "T", "e", "s", "t", ".", "e", "x", "t", "e", "n", "d", "(", "{", "}", ")", ";">>) # 0
            /\ run = 2 => content = before[FixturePath]

\* the second run regenerated a fixture for groups of which two have the
\* same identifier
C8_Witness ==
    /\ FixtureRegenerated
    /\ run = 2
    /\ Len(FirstAppearance(testDataArray)) = 2
    /\ \E m, n \in DOMAIN testDataArray :
          m # n /\ toPascalCase(testDataArray[m].scenario)
                     = toPascalCase(testDataArray[n].scenario)


\* the 1-based data rows at which no scenario title is established: the rows
\* before the first titled row
UntitledRows == { n \in DOMAIN dataRows : \A m \in TitledRows : n < m }

\* the 1-based data rows whose description, steps and expected-result cells
\* are all empty after trimming
CoreEmptyRows == { n \in DOMAIN dataRows : rowCoreEmpty(headers, dataRows[n]) }

\* the sheet row numbers for which a warning of the given kind was logged
WarnedRows(kind) == { vwarnings[n].row : n \in { m \in DOMAIN vwarnings : vwarnings[m].kind = kind } }

HeaderValid == \A h \in Range(MANDATORY_HEADERS) : HasColumn(h)

\* C11 as stated: for every header-valid input whose priority cells are all
\* legal, validateExcelSchema returns without throwing, whatever the scenario
\* cells contain, also when no row has a scenario title.
C11_NeverThrowsOnScenarioCells ==
    (ValidatorDone /\ HeaderValid /\ BadPriorityRows = {}) => vpc = "passed"

\* C11 amended: for a header-valid input whose priority cells are all legal,
\* a row with no scenario established yet and a row whose description, steps
\* and expected-result cells are all empty each produce a warning naming the
\* row and no exception, and validation returns without throwing if some row
\* has a scenario title or there is no data row; when there are data rows and
\* none has a scenario title it throws the no-scenario error after the loop.
C11_WarningsUnlessNoTitleAtAll ==
    (ValidatorDone /\ HeaderValid /\ BadPriorityRows = {})
        => /\ WarnedRows("EmptyScenario") = { n + 1 : n \in UntitledRows }
           /\ WarnedRows("IncompleteRow") = { n + 1 : n \in CoreEmptyRows }
           /\ Len(vwarnings) = Cardinality(UntitledRows) + Cardinality(CoreEmptyRows)
           /\ (TitledRows # {} \/ Len(dataRows) = 0) => vpc = "passed"
           /\ (TitledRows = {} /\ Len(dataRows) > 0)
                  => (vpc = "thrown" /\ verror.kind = "NoScenario")

\* C11 witness: a sheet whose first row has a blank scenario cell and whose
\* second row is titled with empty description, steps and expected result has
\* passed with one warning of each kind
C11_Witness ==
    /\ vpc = "passed"
    /\ Len(dataRows) = 2
    /\ WarnedRows("EmptyScenario") = {2}
    /\ WarnedRows("IncompleteRow") = {3}

----------------------------------------------------------------------------
(* Properties of the Excel parser and the upload route                     *)

\* parseExcelToJSON has returned its Map after the row loop
ParserReturned == xpc \in {"returned", "responded"} /\ vpc = "passed"

\* the most recent non-empty trimmed scenario cell at or before the 1-based
\* data row n; Null when there is none
ResolvedTitle(n) ==
    LET titled == { m \in TitledRows : m <= n }
    IN  IF titled = {} THEN Null
        ELSE Str(rowScenario(headers, dataRows[Max(titled)]))

\* the tests.push calls made for the 1-based data row n
PushesOfRow(n) == { k \in DOMAIN pushes : pushes[k].row = n + 1 }

\* the 1-based data row n was pushed once, under its resolved title, to the
\* group keyed by the short feature name of that title, which the Map holds
GroupedUnderResolvedTitle(n) ==
    /\ Cardinality(PushesOfRow(n)) = 1
    /\ \A k \in PushesOfRow(n) :
          /\ pushes[k].scenario = ResolvedTitle(n).v
          /\ pushes[k].key = toShortFeatureName(ResolvedTitle(n).v)
          /\ mapHas(groupedMap, pushes[k].key)

\* C12 as stated: every data row is grouped under the most recent non-empty
\* trimmed scenario cell at or before it, and a row with an empty scenario
\* cell that precedes every non-empty one produces no test case and does not
\* stop later rows from being grouped.
C12_EveryTitledRowGrouped ==
    ParserReturned =>
        \A n \in DOMAIN dataRows :
            IF ResolvedTitle(n) = Null THEN PushesOfRow(n) = {}
            ELSE GroupedUnderResolvedTitle(n)

\* C12 amended: a data row is grouped under the most recent non-empty
\* trimmed scenario cell at or before it when that title has a letter or a
\* digit (its camelCase form is not empty); a row with no scenario cell at or
\* before it, and a row whose resolved title has an empty camelCase form,
\* produce no test case and do not stop later rows from being grouped.
C12_CarryForwardUnlessNoPageName ==
    ParserReturned =>
        \A n \in DOMAIN dataRows :
            IF ResolvedTitle(n) = Null \/ toCamelCase(ResolvedTitle(n).v) = << >>
            THEN PushesOfRow(n) = {}
            ELSE GroupedUnderResolvedTitle(n)

\* C12 witness: of three rows the first, with a blank scenario cell, was
\* dropped, and the third, blank as well, was grouped with the second
C12_Witness ==
    /\ ParserReturned
    /\ Len(dataRows) = 3
    /\ TitledRows = {2}
    /\ PushesOfRow(1) = {}
    /\ \E k \in PushesOfRow(3) : pushes[k].scenario = <<"L", "o", "g", "i", "n">>
    /\ Len(mapGet(groupedMap, <<"l", "o", "g", "i", "n">>).tests) = 2

\* the sheet rows the parser dropped: those it logged as skipped
DroppedRows ==
    { xlog[k].row : k \in { m \in DOMAIN xlog :
                              xlog[m].kind \in {"NoScenario", "EmptyTitle", "NoPageName"} } }

\* the places of the Map that hold a test case: group index and test index
TestPlaces ==
    UNION { { << g, t >> : t \in DOMAIN groupedMap[g].value.tests } : g \in DOMAIN groupedMap }

\* the tests.push calls made with the given key, in the order made
PushesWithKey(key) == SelectSeq(pushes, LAMBDA p : p.key = key)

\* the test case at place << g, t >> is the one the t-th push to that group
\* built from its source row
PlaceHoldsItsRow(g, t) ==
    LET made == PushesWithKey(groupedMap[g].key)
    IN  /\ t <= Len(made)
        /\ groupedMap[g].value.tests[t] =
               testCaseOf(headers, dataRows[made[t].row - 1], made[t].scenario, t - 1)

\* C13: after parseExcelToJSON the number of tests over all groups equals the
\* number of data rows that were not dropped, every such row has exactly one
\* test case in exactly one group, a dropped row has none, and every test
\* case of every group is the one built from one such row.
C13_OneTestCasePerKeptRow ==
    ParserReturned =>
        /\ Cardinality(TestPlaces) = Len(dataRows) - Cardinality(DroppedRows)
        /\ \A n \in DOMAIN dataRows :
              IF n + 1 \in DroppedRows THEN PushesOfRow(n) = {}
              ELSE /\ Cardinality(PushesOfRow(n)) = 1
                   /\ \A k \in PushesOfRow(n) :
                         Cardinality({ g \in DOMAIN groupedMap :
                                         groupedMap[g].key = pushes[k].key }) = 1
        /\ \A place \in TestPlaces : PlaceHoldsItsRow(place[1], place[2])
        /\ \A g \in DOMAIN groupedMap :
              Len(groupedMap[g].value.tests) = Len(PushesWithKey(groupedMap[g].key))

\* C13 witness: of three rows one was dropped and the other two went to two
\* different groups
C13_Witness ==
    /\ ParserReturned
    /\ Len(dataRows) = 3
    /\ Cardinality(DroppedRows) = 1
    /\ Len(groupedMap) = 2
    /\ Cardinality(TestPlaces) = 2

\* the sheet row of the t-th test case of the g-th group of the Map
SourceRow(g, t) == PushesWithKey(groupedMap[g].key)[t].row

\* C14: within every group the tests are in the order of their source rows,
\* the groups are in the order of the rows that created them, and the array
\* the upload route answers with holds the values of the Map, the same groups
\* with the same tests, in the order of the Map.
C14_RowOrderKeptToTheClient ==
    ParserReturned =>
        /\ \A place \in TestPlaces : PlaceHoldsItsRow(place[1], place[2])
        /\ \A g \in DOMAIN groupedMap :
              /\ Len(groupedMap[g].value.tests) >= 1
              /\ \A t, u \in DOMAIN groupedMap[g].value.tests :
                    t < u => SourceRow(g, t) < SourceRow(g, u)
        /\ \A g, h \in DOMAIN groupedMap : g < h => SourceRow(g, 1) < SourceRow(h, 1)
        /\ xpc = "responded" =>
              /\ uploadResponse.status = 200
              /\ Len(uploadResponse.parsedExcelData) = Len(groupedMap)
              /\ \A g \in DOMAIN groupedMap :
                    /\ uploadResponse.parsedExcelData[g] = groupedMap[g].value
                    /\ uploadResponse.parsedExcelData[g].shortFeatureName = groupedMap[g].key

\* C14 witness: the rows Login, Search, Login were answered as the group of
\* Login with the first and the third row, then the group of Search
C14_Witness ==
    /\ xpc = "responded"
    /\ uploadResponse.status = 200
    /\ Len(uploadResponse.parsedExcelData) = 2
    /\ uploadResponse.parsedExcelData[1].scenario = <<"L", "o", "g", "i", "n">>
    /\ Len(uploadResponse.parsedExcelData[1].tests) = 2
    /\ uploadResponse.parsedExcelData[2].scenario = <<"S", "e", "a", "r", "c", "h">>
    /\ SourceRow(1, 1) = 2
    /\ SourceRow(1, 2) = 4
    /\ SourceRow(2, 1) = 3

\* C15 as stated: whenever parseExcelToJSON returns, the priority of every
\* test case of every group is P1, P2, P3 or the empty string.
C15_PriorityIsLegalOrEmpty ==
    ParserReturned =>
        \A place \in TestPlaces :
            groupedMap[place[1]].value.tests[place[2]].priority \in PRIORITIES \cup { << >> }

\* C19: in parseExcelToJSON no group exists and no row is grouped before the
\* validator has passed the header and every data row; when the validator
\* has thrown, no row is grouped, the parser returns no Map, and the route
\* answers with the failure and without groups.
C19_ValidationCompletesBeforeGrouping ==
    /\ (groupedMap # << >> \/ pushes # << >> \/ xpc \in {"rows", "returned"})
           => (rows = << >> \/ (vpc = "passed" /\ vi = Len(dataRows)))
    /\ vpc = "thrown" =>
           /\ groupedMap = << >>
           /\ pushes = << >>
           /\ xpc \in {"validating", "responded"}
           /\ xpc = "responded" =>
                  /\ uploadResponse.status = 500
                  /\ ~uploadResponse.success
                  /\ uploadResponse.parsedExcelData = << >>

\* C19 witness: the second of two rows has an illegal priority, the first
\* was a valid titled row, and the upload was answered with the failure
C19_Witness ==
    /\ xpc = "responded"
    /\ vpc = "thrown"
    /\ verror.kind = "InvalidPriority"
    /\ verror.row = 3
    /\ 1 \in TitledRows
    /\ uploadResponse.status = 500
    /\ groupedMap = << >>

\* C20: every group of the Map has the scenario title of the first row
\* pushed to it, the page name toCamelCase of that title and the key
\* toShortFeatureName of that title, at every moment of the row loop and after
\* it; no two groups share a key, and every row pushed later under another
\* title with the same short feature name is in that one group.
C20_GroupKeepsItsFirstTitle ==
    /\ \A g \in DOMAIN groupedMap :
          LET made == PushesWithKey(groupedMap[g].key)
          IN  /\ made # << >>
              /\ groupedMap[g].value.scenario = made[1].scenario
              /\ groupedMap[g].value.page = toCamelCase(made[1].scenario)
              /\ groupedMap[g].key = toShortFeatureName(made[1].scenario)
              /\ groupedMap[g].value.shortFeatureName = groupedMap[g].key
              /\ Len(groupedMap[g].value.tests) = Len(made)
              /\ \A h \in DOMAIN groupedMap : groupedMap[h].key = groupedMap[g].key => h = g
    /\ \A k \in DOMAIN pushes :
          /\ pushes[k].key = toShortFeatureName(pushes[k].scenario)
          /\ mapHas(groupedMap, pushes[k].key)

\* C20 witness: a row titled Login Page was appended to the group that a row
\* titled Login had created, which still has the title Login
C20_Witness ==
    /\ ParserReturned
    /\ mapHas(groupedMap, <<"l", "o", "g", "i", "n">>)
    /\ mapGet(groupedMap, <<"l", "o", "g", "i", "n">>).scenario = <<"L", "o", "g", "i", "n">>
    /\ mapGet(groupedMap, <<"l", "o", "g", "i", "n">>).page = <<"l", "o", "g", "i", "n">>
    /\ \E k \in DOMAIN pushes :
          /\ pushes[k].scenario = <<"L", "o", "g", "i", "n", " ", "P", "a", "g", "e">>
          /\ pushes[k].key = <<"l", "o", "g", "i", "n">>
    /\ Len(groupedMap) = 1

----------------------------------------------------------------------------
(* Properties of toShortFeatureName                                        *)

\* the PascalCase forms of the first k significant words, concatenated
PascalPrefix(words, k) == concatAll([n \in 1..k |-> toPascalCase(words[n])])

\* how many leading significant words fit: the most whose PascalCase forms
\* together are shorter than 25 characters
Fitting(words) == Max({ k \in 0..Len(words) : Len(PascalPrefix(words, k)) < 25 })

----------------------------------------------------------------------------
(* Properties of the generation route                                      *)

\* the parsed response is an array, null, or a mapping without keys
MalformedAnswer ==
    \/ parsedType \in {"array", "null"}
    \/ parsedType = "object" /\ fileOrder = << >>

\* C16 as stated: when the parsed response is an array, null or an empty
\* mapping, the generation request is answered with an error and no file of
\* the generated set is written.
C16_MalformedAnswerFailsRequest ==
    (gpc = "responded" /\ generateRequest = CompleteGenerateRequest
         /\ testDataArray # << >> /\ MalformedAnswer)
        => /\ ~generateResponse.success
           /\ generateResponse.status = 500
           /\ written = << >>

----------------------------------------------------------------------------
(* Properties of the keyword inference of the post-processing pass         *)

\* the test case of the case declaration the line loop has just handled
LastTestCase == testDataArray[correspondingScenario].tests[last.k + 1]

\* C17 as stated: for a test case with no attached analysis whose expected
\* text contains an http(s) URL, the synthesized assertion is a wait-for-URL
\* call whose argument is that URL as written in the expected text.
C17_WaitsForTheUrlAsWritten ==
    (/\ last.kind = "case" /\ last.wanted /\ ~last.existing
     /\ ~LastTestCase.analysis.present
     /\ urlMatch(LastTestCase.expected).found)
        => startsWith(last.assertionCode,
                      <<"a", "w", "a", "i", "t", " ", "p", "a", "g", "e", ".", "w", "a", "i", "t", "F", "o", "r", "U", "R", "L", "(", "'">>
                          \o urlMatch(LastTestCase.expected).title \o <<"'", ")", ";">>)

----------------------------------------------------------------------------
(* Further properties of the Excel parser                                  *)

\* the sheet rows logged with the given kind by the parser
LoggedRows(kind) == { xlog[k].row : k \in { m \in DOMAIN xlog : xlog[m].kind = kind } }

\* C21 as stated: a row with a resolved scenario title is dropped at the
\* identifier step exactly when the short feature name of that title is
\* empty, and every row whose title yields a non-empty short feature name
\* produces a test case in the group of that name.
C21_DroppedIffShortNameEmpty ==
    ParserReturned =>
        \A n \in DOMAIN dataRows :
            ResolvedTitle(n) # Null =>
                /\ (n + 1 \in LoggedRows("NoPageName"))
                       <=> (toShortFeatureName(ResolvedTitle(n).v) = << >>)
                /\ toShortFeatureName(ResolvedTitle(n).v) # << >>
                       => GroupedUnderResolvedTitle(n)

\* C21 amended: a row with a resolved scenario title is dropped at the
\* identifier step exactly when toCamelCase of that title is empty; the short
\* feature name is never empty (it falls back to genericFeature) and decides
\* no drop; every row whose title has a non-empty camelCase form produces a
\* test case in the group of its short feature name.
C21_DroppedIffPageNameEmpty ==
    ParserReturned =>
        \A n \in DOMAIN dataRows :
            ResolvedTitle(n) # Null =>
                /\ (n + 1 \in LoggedRows("NoPageName"))
                       <=> (toCamelCase(ResolvedTitle(n).v) = << >>)
                /\ toShortFeatureName(ResolvedTitle(n).v) # << >>
                /\ n + 1 \notin LoggedRows("EmptyTitle")
                /\ IF toCamelCase(ResolvedTitle(n).v) = << >>
                   THEN /\ PushesOfRow(n) = {}
                        /\ ~mapHas(groupedMap, <<"g", "e", "n", "e", "r", "i", "c", "F", "e", "a", "t", "u", "r", "e">>)
                   ELSE GroupedUnderResolvedTitle(n)

\* C21 witness: a row titled with asterisks only, whose short feature name
\* is genericFeature, was dropped at the identifier step, the row after it
\* was grouped
C21_Witness ==
    /\ ParserReturned
    /\ Len(dataRows) = 2
    /\ ResolvedTitle(1) = Str(<<"*", "*", "*">>)
    /\ toShortFeatureName(<<"*", "*", "*">>) = <<"g", "e", "n", "e", "r", "i", "c", "F", "e", "a", "t", "u", "r", "e">>
    /\ LoggedRows("NoPageName") = {2}
    /\ Cardinality(PushesOfRow(2)) = 1

\* the trimmed description cell of the row behind the test case at << g, t >>
DescriptionCellOf(g, t) ==
    trimCell(cellAt(dataRows[SourceRow(g, t) - 1],
                    indexOf(trimmedHeadersOf(headers), H_TestCaseDescription)))

\* the placeholder for the t-th test case of the g-th group: it names the
\* resolved title of the source row and the position t
PlaceholderOf(g, t) ==
    <<"T", "e", "s", "t", " ", "f", "o", "r", " ">> \o PushesWithKey(groupedMap[g].key)[t].scenario \o <<" ", "-", " ", "C", "a", "s", "e", " ">>
        \o << DigitChars[t + 1] >>

\* C22 as stated: when the description cell of a row is empty, the title and
\* the description of its test case both are the placeholder with n one more
\* than the number of tests already in the group; otherwise both are the
\* trimmed cell.
C22_TitleAndDescriptionDefault ==
    ParserReturned =>
        \A place \in TestPlaces :
            LET tc == groupedMap[place[1]].value.tests[place[2]]
                cell == DescriptionCellOf(place[1], place[2])
            IN  IF cell = << >>
                THEN /\ tc.title = PlaceholderOf(place[1], place[2])
                     /\ tc.description = PlaceholderOf(place[1], place[2])
                ELSE tc.title = cell /\ tc.description = cell

\* C22 amended: when the description cell of a row is empty, the title of
\* its test case is the placeholder naming the resolved title of the row and
\* n, one more than the number of tests already in the group, and its
\* description is the empty string; otherwise both are the trimmed cell.
C22_OnlyTitleDefaults ==
    ParserReturned =>
        \A place \in TestPlaces :
            LET tc == groupedMap[place[1]].value.tests[place[2]]
                cell == DescriptionCellOf(place[1], place[2])
            IN  IF cell = << >>
                THEN /\ tc.title = PlaceholderOf(place[1], place[2])
                     /\ tc.description = << >>
                ELSE tc.title = cell /\ tc.description = cell

\* C22 witness: the second test case of the group of Login comes from a row
\* titled Login Page without description
C22_Witness ==
    /\ ParserReturned
    /\ mapHas(groupedMap, <<"l", "o", "g", "i", "n">>)
    /\ mapGet(groupedMap, <<"l", "o", "g", "i", "n">>).scenario = <<"L", "o", "g", "i", "n">>
    /\ Len(mapGet(groupedMap, <<"l", "o", "g", "i", "n">>).tests) >= 2
    /\ mapGet(groupedMap, <<"l", "o", "g", "i", "n">>).tests[2].title = <<"T", "e", "s", "t", " ", "f", "o", "r", " ", "L", "o", "g", "i", "n", " ", "P", "a", "g", "e", " ", "-", " ", "C", "a", "s", "e", " ", "2">>
    /\ mapGet(groupedMap, <<"l", "o", "g", "i", "n">>).tests[2].description = << >>
    /\ mapGet(groupedMap, <<"l", "o", "g", "i", "n">>).tests[1].title = <<"O", "p", "e", "n", "s">>
----------------------------------------------------------------------------
(* Further properties of the post-processing pass                          *)

\* C23 as stated: when the attached analysis has action 'verify', a
\* validation type that is neither text nor visibility, and both a target
\* and an expected value, the synthesized line is a comment that contains
\* the target value and the expected value of that analysis.
C23_CommentNamesTargetAndValue ==
    (/\ last.kind = "case" /\ last.wanted /\ ~last.existing
     /\ LastTestCase.analysis.present
     /\ LastTestCase.analysis.action = "verify"
     /\ LastTestCase.analysis.validationType \notin {"text", "visibility"}
     /\ LastTestCase.analysis.target # << >>
     /\ LastTestCase.analysis.expectedValue # << >>)
        => /\ startsWith(last.assertionCode, <<"/", "/">>)
           /\ includes(last.assertionCode, LastTestCase.analysis.target)
           /\ includes(last.assertionCode, LastTestCase.analysis.expectedValue)

\* the number of occurrences of a character in a line
RECURSIVE occurrences(_, _)
occurrences(line, ch) ==
    IF line = << >> THEN 0
    ELSE (IF Head(line) = ch THEN 1 ELSE 0) + occurrences(Tail(line), ch)

\* the first of the lines from the n-th on after which a depth that moves by
\* every opening and every closing brace of a line is 0; 0 when there is none
RECURSIVE firstBalanced(_, _, _)
firstBalanced(scanned, n, depth) ==
    IF n > Len(scanned) THEN 0
    ELSE LET after == depth + occurrences(scanned[n], "{")
                            - occurrences(scanned[n], "}")
         IN  IF after = 0 THEN n ELSE firstBalanced(scanned, n + 1, after)

\* C24 as stated: the scan moves the depth, seeded at 1, by the number of
\* opening braces minus the number of closing braces of each line, and the
\* line before which the assertion goes is the first one after which that
\* depth is 0.
C24_DepthCountsEveryBrace ==
    \A n \in DOMAIN injections :
        LET scanned == injections[n].between \o << injections[n].closing >>
        IN  firstBalanced(scanned, 1, 1) = Len(scanned)

\* whether the lines of sub come in arr, in that order
RECURSIVE IsSubsequence(_, _)
IsSubsequence(sub, arr) ==
    IF sub = << >> THEN TRUE
    ELSE IF arr = << >> THEN FALSE
    ELSE IF Head(sub) = Head(arr) THEN IsSubsequence(Tail(sub), Tail(arr))
    ELSE IsSubsequence(sub, Tail(arr))

\* the lines of the file as it was before the pass that no rewriting applies
\* to: not the first line, no describe line that is corrected, no case
\* declaration
RECURSIVE KeptAsWritten(_, _, _)
KeptAsWritten(original, n, scenario) ==
    IF n > Len(original) THEN << >>
    ELSE IF /\ n > 1
            /\ ~testMatch(original[n]).found
            /\ correctDescribeTitle(original[n], scenario) = original[n]
         THEN << original[n] >> \o KeptAsWritten(original, n + 1, scenario)
         ELSE KeptAsWritten(original, n + 1, scenario)

\* C28 as stated: once a test file with an owning group is finished, the
\* output has a line for every line of the input, and the input lines that
\* are not rewritten come in the output in their order.
C28_NoLineRemoved ==
    (/\ pc \in {"files", "done"}
     /\ filePath # << >>
     /\ correspondingScenario # 0) =>
        LET original == split(before[filePath], "\n")
        IN  /\ Len(newLines) >= Len(original)
            /\ IsSubsequence(KeptAsWritten(original, 1,
                                 testDataArray[correspondingScenario].scenario),
                             newLines)

----------------------------------------------------------------------------
(* Properties of the generation route against the disk                     *)

\* the paths of the files on a disk
PathsOf(files) == { f.path : f \in files }

\* the request that takes the step from the entry of the handler
Entering(r) == rpc[r] = "request" /\ rpc'[r] # "request"

\* whether one of two directories is the other or lies inside it
Nested(a, b) == a = b \/ inside(a, b) \/ inside(b, a)

\* tool and language are there, testData is a non-empty array with a group
\* whose title is neither empty nor generic, and the output path is valid
EveryCheckPassed(body) ==
    /\ body.tool # Missing /\ body.language # Missing
    /\ trim(body.tool) # << >> /\ trim(body.language) # << >>
    /\ body.isArray
    /\ \E n \in DOMAIN body.testData :
           /\ trim(body.testData[n].scenario) \notin {<< >>, <<"G", "e", "n", "e", "r", "i", "c", " ", "F", "e", "a", "t", "u", "r", "e">>}
           /\ toCamelCase(trim(body.testData[n].scenario)) # <<"g", "e", "n", "e", "r", "i", "c", "F", "e", "a", "t", "u", "r", "e">>
    /\ validateAndNormalizePath(body.outputPath, projectNameOf(body)).ok

\* C30: a step in which a file goes from the disk is the entry of a request
\* that passes every check of the body, and the step that answers a request
\* with status 400 leaves files and directories as they are.
C30_ClearedOnlyAfterEveryCheck ==
    [][/\ (PathsOf(disk) \ PathsOf(disk') # {}) =>
              \E r \in RequestIds : Entering(r) /\ EveryCheckPassed(routeRequest[r])
       /\ \A r \in RequestIds :
              (routeStatus[r] = 0 /\ routeStatus'[r] = 400) =>
                  (disk' = disk /\ dirs' = dirs)]_vars

\* a project generated earlier has been cleared away for one request, and
\* the other request was answered with status 400
C30_Witness ==
    /\ \E k \in DOMAIN cleared : \E f \in cleared[k].removed : f.by = 0
    /\ \E r \in RequestIds : routeStatus[r] = 400

\* C26 as stated: a file a request has written goes or is overwritten only
\* in a step of a request with the same project directory.
C26_OnlySameDirectoryInterferes ==
    [][\A f \in disk :
           (f.by \in RequestIds /\ f \notin disk') =>
               \E r \in RequestIds :
                   /\ rpc'[r] # rpc[r]
                   /\ projectDir'[r] = projectDir[f.by]]_vars

\* C26, amended: a file a request has written goes or is overwritten only in
\* a step of a request whose project directory is the same as, lies inside
\* or contains the project directory of the request that wrote it.
C26_OnlyNestedDirectoriesInterfere ==
    [][\A f \in disk :
           (f.by \in RequestIds /\ f \notin disk') =>
               \E r \in RequestIds :
                   /\ rpc'[r] # rpc[r]
                   /\ Nested(projectDir'[r], projectDir[f.by])]_vars

\* a request has cleared its project directory while the other request, with
\* the same project directory, was waiting at an await, and files the other
\* had written went with it
C26_Witness ==
    \E k \in DOMAIN cleared :
        \E f \in cleared[k].removed :
            /\ f.by \in cleared[k].awaiting
            /\ f.by # cleared[k].by
            /\ projectDir[f.by] = cleared[k].dir

----------------------------------------------------------------------------
(* Properties of the merge of suggestions                                  *)

\* how many tests the group at index g had before the step, 0 for a group
\* the step created
TestsBefore(g) ==
    IF g \in DOMAIN currentParsedExcelData THEN Len(currentParsedExcelData[g].tests)
    ELSE 0

\* C27: in a click on Add Selected every group stays where it was with its
\* page, title and short name, its tests stay as they were at the head of
\* its tests, and a test that was appended has neither the id nor the title
\* of a test that comes before it in its group.
C27_MergeAppendsWithoutDuplicates ==
    [][(merges' = merges + 1) =>
           /\ Len(currentParsedExcelData') >= Len(currentParsedExcelData)
           /\ \A g \in DOMAIN currentParsedExcelData :
                  /\ currentParsedExcelData'[g].page = currentParsedExcelData[g].page
                  /\ currentParsedExcelData'[g].scenario = currentParsedExcelData[g].scenario
                  /\ currentParsedExcelData'[g].shortFeatureName
                         = currentParsedExcelData[g].shortFeatureName
                  /\ Len(currentParsedExcelData'[g].tests) >= TestsBefore(g)
                  /\ SubSeq(currentParsedExcelData'[g].tests, 1, TestsBefore(g))
                         = currentParsedExcelData[g].tests
           /\ \A g \in DOMAIN currentParsedExcelData' :
                  \A t \in DOMAIN currentParsedExcelData'[g].tests :
                      t > TestsBefore(g) =>
                          \A u \in 1..(t - 1) :
                              /\ currentParsedExcelData'[g].tests[u].id
                                     # currentParsedExcelData'[g].tests[t].id
                              /\ currentParsedExcelData'[g].tests[u].title
                                     # currentParsedExcelData'[g].tests[t].title]_vars

\* a click with several boxes checked has appended a test and has passed
\* over a duplicate
C27_Witness ==
    /\ merges >= 1
    /\ newlyAddedCount >= 1
    /\ newlyAddedCount < Len(selectedCheckboxes)

\* no two groups of the collection have the same shortFeatureName
NoSharedShortFeatureName(data) ==
    \A g, h \in DOMAIN data :
        g # h => data[g].shortFeatureName # data[h].shortFeatureName

\* C29 as stated: no two groups share a shortFeatureName, in what
\* parseExcelToJSON returns and in the client's collection after any merges.
C29_ShortFeatureNamesDistinct ==
    /\ NoSharedShortFeatureName(mapValues(groupedMap))
    /\ NoSharedShortFeatureName(currentParsedExcelData)

----------------------------------------------------------------------------
(* Properties of processDataWithNlp                                        *)

\* the calls the tests from the t-th on of the group g are due, in order
RECURSIVE CallsDueTests(_, _, _)
CallsDueTests(data, g, t) ==
    IF t > Len(data[g].tests) THEN << >>
    ELSE [n \in DOMAIN data[g].tests[t].steps |->
              [group |-> g, test |-> t, kind |-> "step",
               text |-> data[g].tests[t].steps[n]]]
         \o << [group |-> g, test |-> t, kind |-> "description",
                text |-> data[g].tests[t].description],
               [group |-> g, test |-> t, kind |-> "expectedResult",
                text |-> data[g].tests[t].expected] >>
         \o CallsDueTests(data, g, t + 1)

\* the calls the groups from the g-th on are due, in order
RECURSIVE CallsDue(_, _)
CallsDue(data, g) ==
    IF g > Len(data) THEN << >>
    ELSE CallsDueTests(data, g, 1) \o CallsDue(data, g + 1)

=============================================================================
